---------------------------- MODULE Spec2Model ----------------------------
(***************************************************************************)
(* A model of the tlspolicy-server scanning pipeline:                      *)
(*   - the DNS processor (in-flight map, mutex, worker pool, lookups),     *)
(*   - the MX processor on its cached worker pool,                         *)
(*   - the host summary built from one or two grabs.                       *)
(* Each part has its own specification; a specification leaves the         *)
(* variables of the other parts unchanged.                                 *)
(***************************************************************************)
EXTENDS Integers, Sequences, FiniteSets, TLC

(***************************************************************************)
(* Bounds of the model.                                                    *)
(***************************************************************************)
\* total number of DnsProcessor.NewJob calls the free-standing clients make
MaxCalls == 3
\* number of MxProcessor.GetValue calls made from outside the pipeline
MaxGetValues == 1
\* capacity of the MX processor's cache and of the host processor's cache
MxCapacity == 1
HostCapacity == 2

Nil == "nil"
NoJob == 0

\* a pointer to a record: the nil pointer, or a pointer to x
NilPtr == <<>>
Ptr(x) == <<x>>
Deref(p) == p[1]

(***************************************************************************)
(* The state.                                                              *)
(***************************************************************************)
VARIABLES
    mutex,      \* proc.mutex: the process holding it, or Nil
    jobs,       \* proc.jobs: query -> job, NoJob where the map has no entry
    queue,      \* the worker pool's channel of DnsJobs
    nextJob,    \* the next DnsJob to allocate
    jobQuery,   \* job.Query
    jobResult,  \* job.Result, NilPtr until written
    jobWait,    \* job.wait: the WaitGroup counter
    npc,        \* a caller's position in DnsProcessor.NewJob
    nquery,     \* NewJob's query
    njob,       \* NewJob's job
    nexist,     \* NewJob's exist
    wpc,        \* a DNS worker's position in work
    wjob,       \* the job a DNS worker is working on
    cpc,        \* a client's position
    cjob,       \* the job a client holds
    calls,      \* number of NewJob calls the clients have made
    jobLookups, \* history: number of Lookups done for a job
    jobRemoved, \* history: the job's worker has deleted its query from proc.jobs
    nstale      \* history: the job NewJob picked had already completed when picked

dnsVars == <<mutex, jobs, queue, nextJob, jobQuery, jobResult, jobWait, npc, nquery,
             njob, nexist, wpc, wjob, cpc, cjob, calls, jobLookups, jobRemoved, nstale>>

VARIABLES
    lpc,        \* position of the lookup: "idle", "asked", "returned"
    lquery,     \* the query of the lookup
    lreply,     \* what the resolver replied
    lresult     \* the DnsResult that Lookup returned

lkVars == <<lpc, lquery, lreply, lresult>>

VARIABLES
    spc,        \* position in NewMxHostSummary: "start", "second", "finish", "done"
    log1,       \* banner log of the first probe
    log2,       \* banner log of the second probe
    grab1,      \* the first MxHostGrab
    grab2,      \* the second MxHostGrab
    probes,     \* number of probes made
    hsum,       \* the MxHostSummary under construction (result)
    supplied,   \* history: the fields the Append of the second grab changed
    vnow,       \* history: opts.CurrentTime of NewCertificateValidity
    vbuilt      \* history: what leaf.BuildChains returned, NilPtr if not called

sumVars == <<spc, log1, log2, grab1, grab2, probes, hsum, supplied, vnow, vbuilt>>

VARIABLES
    lru,        \* the cache of each pool: its entries, least recently used first
    pqueue,     \* the work channel of each cached pool
    nextEntry,  \* the next CacheEntry to allocate
    entryKey,   \* entry.Key
    entryValue, \* entry.Value, NilPtr until set
    entryState, \* "free" (not allocated), "pending" or "done"
    entryWorks, \* history: number of times work was invoked on the entry
    ppc,        \* a caller's position in CachedWorkerPool.NewJob
    ppool,      \* the pool of that NewJob
    pkey,       \* its key
    pentry,     \* its entry
    pcreated,   \* whether it created the entry
    xpc,        \* position of an outside caller of the MX processor
    xret,       \* what its GetValue returned
    xsaw,       \* history: state of the entry when GetValue read entry.Value
    mxCalls,    \* number of calls the outside callers have made
    mpc,        \* an MX worker's position in MxProcessor.work
    mentry,     \* the entry the MX worker works on
    mgroup,     \* mxAddresses: the DnsJobs group
    maddrs,     \* addresses
    mjobs,      \* jobs: the host entries, in the order of addresses
    mhosts,     \* hosts: the summaries collected so far
    hpc,        \* a host worker's position
    hentry      \* the entry the host worker works on

mxVars == <<lru, pqueue, nextEntry, entryKey, entryValue, entryState, entryWorks, ppc,
            ppool, pkey, pentry, pcreated, xpc, xret, xsaw, mxCalls, mpc, mentry,
            mgroup, maddrs, mjobs, mhosts, hpc, hentry>>

(* The store: the tables with their unique keys, and the goroutines saving *)
(* results in it.                                                          *)
VARIABLES
    rows,       \* per table and key: the version of the row, 0 if there is none
    nextRow,    \* the version the next inserted row gets
    knownCerts, \* the keys in the cache of certificates known to be saved
    dpc,        \* per saver: where it is in its save function
    dop,        \* per saver: the save function it runs and the natural key
    dseen,      \* per saver: the version of the row its first statement saw
    dlogged,    \* per saver: it has logged a duplicate key
    dcalls,     \* per saver: the save functions it has called
    mxrec,      \* mx_records: per hostname and family, the committed addresses
    dtx         \* per saver: the rows its open transaction deleted and
                \* inserted, and the addresses it has yet to insert

dbVars == <<rows, nextRow, knownCerts, dpc, dop, dseen, dlogged, dcalls, mxrec, dtx>>

(* The simplification of one error message.                                *)
VARIABLES
    epc,        \* "start", "called" inside simplifyError, "done" after
    emsg,       \* err.Error(), the message of the error
    eout        \* the message of the error returned

seVars == <<epc, emsg, eout>>

vars == <<dnsVars, lkVars, sumVars, mxVars, dbVars, seVars>>

\* the DNS processor's state but for the locals of NewJob
dnsRest == <<mutex, jobs, queue, nextJob, jobQuery, jobResult, jobWait, wpc, wjob, cpc,
             cjob, calls, jobLookups, jobRemoved, nstale>>
\* the locals of CachedWorkerPool.NewJob
pcall == <<ppc, ppool, pkey, pentry, pcreated>>
\* the outside callers
outside == <<xpc, xret, xsaw, mxCalls>>
\* the host workers
hostWork == <<hpc, hentry>>

(***************************************************************************)
(* DNS data: queries, resource records, resolver responses, results.       *)
(***************************************************************************)
TypeA == "A"
TypeAAAA == "AAAA"
TypeMX == "MX"
TypeTLSA == "TLSA"

RcodeSuccess == 0
RcodeServerFailure == 2
RcodeNameError == 3

\* dns.RcodeToString, restricted to the rcodes the model uses
RcodeToString(rcode) ==
    CASE rcode = RcodeSuccess -> "NOERROR"
      [] rcode = RcodeServerFailure -> "SERVFAIL"
      [] rcode = RcodeNameError -> "NXDOMAIN"

DnsQuery(domain, typ) == [Domain |-> domain, Type |-> typ]
NoQuery == DnsQuery("", "")

\* the zero value of DnsResult (named result of lookupDns / lookupUnbound)
ZeroDnsResult == [Results |-> <<>>, Secure |-> FALSE, Error |-> Nil, WhyBogus |-> Nil]

\* net.IP.String() of an IPv4 address given as its four octets
IPv4String(ip) ==
    ToString(ip[1]) \o "." \o ToString(ip[2]) \o "." \o ToString(ip[3]) \o "." \o ToString(ip[4])

\* DnsResult.appendRR: the textual form of one resource record, appended to
\* Results; a record of any other type is skipped
appendRR(result, rr) ==
    CASE rr.type = TypeMX -> [result EXCEPT !.Results = Append(@, rr.text)]
      [] rr.type = TypeA -> [result EXCEPT !.Results = Append(@, IPv4String(rr.ip))]
      [] rr.type = TypeAAAA -> [result EXCEPT !.Results = Append(@, rr.text)]
      [] rr.type = TypeTLSA ->
            [result EXCEPT !.Results = Append(@,
                ToString(rr.usage) \o " " \o ToString(rr.selector) \o " "
                    \o ToString(rr.matching) \o " " \o rr.text)]
      [] OTHER -> result

RECURSIVE appendRRs(_, _)
appendRRs(result, rrs) ==
    IF rrs = <<>> THEN result
    ELSE appendRRs(appendRR(result, Head(rrs)), Tail(rrs))

\* DnsProcessor.lookupDns on the reply (response, err) of dnsClient.Exchange
lookupDns(query, reply) ==
    IF reply.err # Nil \/ reply.rcode = RcodeNameError
    THEN [ZeroDnsResult EXCEPT !.Error = reply.err]
    ELSE IF reply.rcode # RcodeSuccess
    THEN [ZeroDnsResult EXCEPT !.Error = RcodeToString(reply.rcode)]
    ELSE appendRRs(ZeroDnsResult, reply.answer)

\* DnsProcessor.lookupUnbound on the reply (response, err) of unboundCtx.Resolve
lookupUnbound(query, reply) ==
    LET r1 == [ZeroDnsResult EXCEPT !.Secure = reply.secure]
        r2 == IF reply.whyBogus # "" THEN [r1 EXCEPT !.WhyBogus = reply.whyBogus] ELSE r1
    IN  IF reply.err # Nil \/ reply.nxDomain
        THEN [r2 EXCEPT !.Error = reply.err]
        ELSE IF reply.rcode # RcodeSuccess
        THEN [r2 EXCEPT !.Error = RcodeToString(reply.rcode)]
        ELSE appendRRs(r2, reply.answer)

\* DnsProcessor.Lookup: unbound for TLSA, Go-DNS for everything else
Lookup(query, reply) ==
    IF query.Type = TypeTLSA THEN lookupUnbound(query, reply)
    ELSE lookupDns(query, reply)

RRA(ip) == [type |-> TypeA, ip |-> ip]
RRAAAA(text) == [type |-> TypeAAAA, text |-> text]
RRCNAME(text) == [type |-> "CNAME", text |-> text]
RRTLSA(u, s, m, hex) == [type |-> TypeTLSA, usage |-> u, selector |-> s, matching |-> m, text |-> hex]

\* what the resolver may answer to a query of the given type
Answers(typ) ==
    CASE typ = TypeA -> { <<>>, <<RRA(<<192, 0, 2, 1>>)>>,
                          <<RRA(<<192, 0, 2, 1>>), RRA(<<192, 0, 2, 1>>)>>,
                          <<RRCNAME("alias.example"), RRA(<<192, 0, 2, 1>>), RRA(<<192, 0, 2, 2>>)>> }
      [] typ = TypeAAAA -> { <<>>, <<RRAAAA("2001:db8::1")>> }
      [] typ = TypeTLSA -> { <<>>, <<RRTLSA(3, 1, 1, "ab12")>> }
      [] OTHER -> { <<>> }

TransportErrors == {Nil, "i/o timeout"}
Rcodes == {RcodeSuccess, RcodeServerFailure, RcodeNameError}

\* replies of dnsClient.Exchange: on a transport error there is no usable response
ExchangeReplies(typ) ==
    { [err |-> e, rcode |-> rc, answer |-> a] :
        e \in TransportErrors, rc \in Rcodes, a \in Answers(typ) }

\* replies of unboundCtx.Resolve
ResolveReplies(typ) ==
    { [err |-> e, rcode |-> rc, nxDomain |-> (rc = RcodeNameError), secure |-> s,
       whyBogus |-> b, answer |-> a] :
        e \in TransportErrors, rc \in Rcodes, s \in BOOLEAN,
        b \in {"", "signature expired"}, a \in Answers(typ) }

Replies(typ) == IF typ = TypeTLSA THEN ResolveReplies(typ) ELSE ExchangeReplies(typ)

(***************************************************************************)
(* The DNS processor.                                                      *)
(***************************************************************************)
Clients == {"c1", "c2"}
DnsWorkers == {"d1", "d2"}
MxWorkers == {"m1"}
HostWorkers == {"h1"}
\* the DNS workers of a run of the whole pipeline
MxDnsWorkers == {"d1"}
\* the callers of DnsProcessor.NewJob: free-standing clients and MX workers
Callers == Clients \cup MxWorkers

\* the rows of "SELECT DISTINCT unnest(mx_hosts) FROM domains"
HostnameRows == <<"mx1.example", "mx2.example">>
Hostnames == { HostnameRows[i] : i \in 1..Len(HostnameRows) }
Domains == Hostnames
\* addressTypes
addressTypes == <<TypeA, TypeAAAA>>
Queries == { DnsQuery(d, t) : d \in Domains, t \in {TypeA, TypeAAAA} }
\* the queries the free-standing clients ask
ClientQueries == { q \in Queries : q.Domain = HostnameRows[1] }
\* a DnsJob per call of a client, and one per address type of every MX job
JobIds == 1..(MaxCalls + Len(addressTypes) * (Len(HostnameRows) + MaxGetValues))

\* the answers of the resolver while the processor runs: an A answer names
\* its address twice
RunAnswers(typ) ==
    IF typ = TypeA
    THEN { <<RRA(<<192, 0, 2, 1>>), RRA(<<192, 0, 2, 1>>)>> }
    ELSE { a \in Answers(typ) : Len(a) = 1 }

\* the replies the resolver gives while the processor runs
RunReplies(typ) ==
    { [err |-> Nil, rcode |-> RcodeSuccess, answer |-> a] : a \in RunAnswers(typ) }
    \cup { [err |-> "i/o timeout", rcode |-> RcodeSuccess, answer |-> <<>>] }


DnsInit ==
    /\ mutex = Nil
    /\ jobs = [q \in Queries |-> NoJob]
    /\ queue = <<>>
    /\ nextJob = 1
    /\ jobQuery = [j \in JobIds |-> NoQuery]
    /\ jobResult = [j \in JobIds |-> NilPtr]
    /\ jobWait = [j \in JobIds |-> 0]
    /\ npc = [c \in Callers |-> "idle"]
    /\ nquery = [c \in Callers |-> NoQuery]
    /\ njob = [c \in Callers |-> NoJob]
    /\ nexist = [c \in Callers |-> FALSE]
    /\ wpc = [w \in DnsWorkers |-> "idle"]
    /\ wjob = [w \in DnsWorkers |-> NoJob]
    /\ cpc = [c \in Clients |-> "idle"]
    /\ cjob = [c \in Clients |-> NoJob]
    /\ calls = 0
    /\ jobLookups = [j \in JobIds |-> 0]
    /\ jobRemoved = [j \in JobIds |-> FALSE]
    /\ nstale = [c \in Callers |-> FALSE]

\* the job exists: NewJob has allocated it
Created(job) == job \in JobIds /\ job < nextJob

\* the job's completion signal has fired: its WaitGroup counter is back to zero
Completed(job) == Created(job) /\ jobWait[job] = 0

\* WorkerPool.Add: send the item on the pool's channel
WorkerPoolAdd(q, item) == Append(q, item)

\* mutant of MapGet: the lookup in the map never finds the running job
MapGetMiss(m, query) == NoJob

\* the map operation of NewJob: the entry of the query, if there is one
MapGet(m, query) == m[query]

\* mutant of MapDelete: the worker forgets to clean up the map
MapDeleteNothing(m, query) == m

\* the map operation of work: delete(proc.jobs, query)
MapDelete(m, query) == [m EXCEPT ![query] = NoJob]

\* proc.mutex.Lock() at the head of NewJob
NewJobLock(c) ==
    /\ npc[c] = "lock"
    /\ mutex = Nil
    /\ mutex' = c
    /\ npc' = [npc EXCEPT ![c] = "check"]
    /\ UNCHANGED <<jobs, queue, nextJob, jobQuery, jobResult, jobWait, nquery, njob,
                   nexist, wpc, wjob, cpc, cjob, calls, jobLookups, jobRemoved, nstale>>
    /\ UNCHANGED <<lkVars, sumVars, mxVars, dbVars, seVars>>

\* "Is the same query already running?": reuse the job of the map, or make one
NewJobCheck(c) ==
    /\ npc[c] = "check"
    /\ LET query == nquery[c]
           found == MapGet(jobs, query)
           exist == found # NoJob
       IN  /\ nexist' = [nexist EXCEPT ![c] = exist]
           /\ IF exist
              THEN /\ njob' = [njob EXCEPT ![c] = found]
                   /\ nstale' = [nstale EXCEPT ![c] = Completed(found)]
                   /\ UNCHANGED <<jobs, nextJob, jobQuery, jobWait>>
              ELSE /\ njob' = [njob EXCEPT ![c] = nextJob]
                   /\ nstale' = [nstale EXCEPT ![c] = FALSE]
                   /\ jobQuery' = [jobQuery EXCEPT ![nextJob] = query]
                   /\ jobWait' = [jobWait EXCEPT ![nextJob] = @ + 1]
                   /\ jobs' = [jobs EXCEPT ![query] = nextJob]
                   /\ nextJob' = nextJob + 1
    /\ npc' = [npc EXCEPT ![c] = "unlock"]
    /\ UNCHANGED <<mutex, queue, jobResult, nquery, wpc, wjob, cpc, cjob, calls,
                   jobLookups, jobRemoved>>
    /\ UNCHANGED <<lkVars, sumVars, mxVars, dbVars, seVars>>

\* mutant of NewJobUnlock: NewJob goes on without releasing the mutex
NewJobUnlockKept(c) ==
    /\ npc[c] = "unlock"
    /\ npc' = [npc EXCEPT ![c] = "add"]
    /\ UNCHANGED <<mutex, jobs, queue, nextJob, jobQuery, jobResult, jobWait, nquery, njob,
                   nexist, wpc, wjob, cpc, cjob, calls, jobLookups, jobRemoved, nstale>>
    /\ UNCHANGED <<lkVars, sumVars, mxVars, dbVars, seVars>>

\* proc.mutex.Unlock() in NewJob
NewJobUnlock(c) ==
    /\ npc[c] = "unlock"
    /\ mutex' = Nil
    /\ npc' = [npc EXCEPT ![c] = "add"]
    /\ UNCHANGED <<jobs, queue, nextJob, jobQuery, jobResult, jobWait, nquery, njob,
                   nexist, wpc, wjob, cpc, cjob, calls, jobLookups, jobRemoved, nstale>>
    /\ UNCHANGED <<lkVars, sumVars, mxVars, dbVars, seVars>>

\* mutant of NewJobAdd: the job is enqueued whether or not it existed
NewJobAddAlways(c) ==
    /\ npc[c] = "add"
    /\ queue' = WorkerPoolAdd(queue, njob[c])
    /\ npc' = [npc EXCEPT ![c] = "ret"]
    /\ UNCHANGED <<mutex, jobs, nextJob, jobQuery, jobResult, jobWait, nquery, njob,
                   nexist, wpc, wjob, cpc, cjob, calls, jobLookups, jobRemoved, nstale>>
    /\ UNCHANGED <<lkVars, sumVars, mxVars, dbVars, seVars>>

\* "if !exist { proc.workers.Add(job) }; return job"
NewJobAdd(c) ==
    /\ npc[c] = "add"
    /\ queue' = IF nexist[c] THEN queue ELSE WorkerPoolAdd(queue, njob[c])
    /\ npc' = [npc EXCEPT ![c] = "ret"]
    /\ UNCHANGED <<mutex, jobs, nextJob, jobQuery, jobResult, jobWait, nquery, njob,
                   nexist, wpc, wjob, cpc, cjob, calls, jobLookups, jobRemoved, nstale>>
    /\ UNCHANGED <<lkVars, sumVars, mxVars, dbVars, seVars>>

\* mutant of WorkerTake: the query leaves the map when its job is dequeued
WorkerTakeAndForget(w) ==
    /\ wpc[w] = "idle"
    /\ queue # <<>>
    /\ wjob' = [wjob EXCEPT ![w] = Head(queue)]
    /\ queue' = Tail(queue)
    /\ jobs' = [jobs EXCEPT ![jobQuery[Head(queue)]] = NoJob]
    /\ wpc' = [wpc EXCEPT ![w] = "lookup"]
    /\ UNCHANGED <<mutex, nextJob, jobQuery, jobResult, jobWait, npc, nquery,
                   njob, nexist, cpc, cjob, calls, jobLookups, jobRemoved, nstale>>
    /\ UNCHANGED <<lkVars, sumVars, mxVars, dbVars, seVars>>

\* a worker of the pool receives the next item of the channel
WorkerTake(w) ==
    /\ wpc[w] = "idle"
    /\ queue # <<>>
    /\ wjob' = [wjob EXCEPT ![w] = Head(queue)]
    /\ queue' = Tail(queue)
    /\ wpc' = [wpc EXCEPT ![w] = "lookup"]
    /\ UNCHANGED <<mutex, jobs, nextJob, jobQuery, jobResult, jobWait, npc, nquery,
                   njob, nexist, cpc, cjob, calls, jobLookups, jobRemoved, nstale>>
    /\ UNCHANGED <<lkVars, sumVars, mxVars, dbVars, seVars>>

\* mutant of WorkerLookup: the result of the Lookup is not stored in the job
WorkerLookupDropsResult(w) ==
    /\ wpc[w] = "lookup"
    /\ jobLookups' = [jobLookups EXCEPT ![wjob[w]] = @ + 1]
    /\ wpc' = [wpc EXCEPT ![w] = "lock"]
    /\ UNCHANGED <<mutex, jobs, queue, nextJob, jobQuery, jobResult, jobWait, npc, nquery,
                   njob, nexist, wjob, cpc, cjob, calls, jobRemoved, nstale>>
    /\ UNCHANGED <<lkVars, sumVars, mxVars, dbVars, seVars>>

\* "result := proc.Lookup(job.Query); job.Result = &result"
WorkerLookup(w) ==
    /\ wpc[w] = "lookup"
    /\ LET job == wjob[w]
           query == jobQuery[job]
       IN  /\ \E reply \in RunReplies(query.Type) :
                 jobResult' = [jobResult EXCEPT ![job] = Ptr(Lookup(query, reply))]
           /\ jobLookups' = [jobLookups EXCEPT ![job] = @ + 1]
    /\ wpc' = [wpc EXCEPT ![w] = "lock"]
    /\ UNCHANGED <<mutex, jobs, queue, nextJob, jobQuery, jobWait, npc, nquery, njob,
                   nexist, wjob, cpc, cjob, calls, jobRemoved, nstale>>
    /\ UNCHANGED <<lkVars, sumVars, mxVars, dbVars, seVars>>

\* proc.mutex.Lock() in work
WorkerLock(w) ==
    /\ wpc[w] = "lock"
    /\ mutex = Nil
    /\ mutex' = w
    /\ wpc' = [wpc EXCEPT ![w] = "delete"]
    /\ UNCHANGED <<jobs, queue, nextJob, jobQuery, jobResult, jobWait, npc, nquery,
                   njob, nexist, wjob, cpc, cjob, calls, jobLookups, jobRemoved, nstale>>
    /\ UNCHANGED <<lkVars, sumVars, mxVars, dbVars, seVars>>

\* "delete(proc.jobs, *job.Query)"
WorkerDelete(w) ==
    /\ wpc[w] = "delete"
    /\ jobs' = MapDelete(jobs, jobQuery[wjob[w]])
    /\ jobRemoved' = [jobRemoved EXCEPT ![wjob[w]] = TRUE]
    /\ wpc' = [wpc EXCEPT ![w] = "unlock"]
    /\ UNCHANGED <<mutex, queue, nextJob, jobQuery, jobResult, jobWait, npc, nquery,
                   njob, nexist, wjob, cpc, cjob, calls, jobLookups, nstale>>
    /\ UNCHANGED <<lkVars, sumVars, mxVars, dbVars, seVars>>

\* proc.mutex.Unlock() in work
WorkerUnlock(w) ==
    /\ wpc[w] = "unlock"
    /\ mutex' = Nil
    /\ wpc' = [wpc EXCEPT ![w] = "done"]
    /\ UNCHANGED <<jobs, queue, nextJob, jobQuery, jobResult, jobWait, npc, nquery,
                   njob, nexist, wjob, cpc, cjob, calls, jobLookups, jobRemoved, nstale>>
    /\ UNCHANGED <<lkVars, sumVars, mxVars, dbVars, seVars>>

\* "job.wait.Done()": wake up the waiting routines; the worker is free again
\* mutant of WorkerDone: the worker returns without job.wait.Done()
WorkerDoneNoSignal(w) ==
    /\ wpc[w] = "done"
    /\ wpc' = [wpc EXCEPT ![w] = "idle"]
    /\ wjob' = [wjob EXCEPT ![w] = NoJob]
    /\ UNCHANGED <<mutex, jobs, queue, nextJob, jobQuery, jobResult, jobWait, npc, nquery,
                   njob, nexist, cpc, cjob, calls, jobLookups, jobRemoved, nstale>>
    /\ UNCHANGED <<lkVars, sumVars, mxVars, dbVars, seVars>>

WorkerDone(w) ==
    /\ wpc[w] = "done"
    /\ jobWait' = [jobWait EXCEPT ![wjob[w]] = @ - 1]
    /\ wpc' = [wpc EXCEPT ![w] = "idle"]
    /\ wjob' = [wjob EXCEPT ![w] = NoJob]
    /\ UNCHANGED <<mutex, jobs, queue, nextJob, jobQuery, jobResult, npc, nquery,
                   njob, nexist, cpc, cjob, calls, jobLookups, jobRemoved, nstale>>
    /\ UNCHANGED <<lkVars, sumVars, mxVars, dbVars, seVars>>

\* a client calls dnsProcessor.NewJob(domain, typ)
ClientNewJob(c) ==
    /\ cpc[c] = "idle"
    /\ calls < MaxCalls
    /\ \E query \in ClientQueries : nquery' = [nquery EXCEPT ![c] = query]
    /\ npc' = [npc EXCEPT ![c] = "lock"]
    /\ cpc' = [cpc EXCEPT ![c] = "newjob"]
    /\ calls' = calls + 1
    /\ UNCHANGED <<mutex, jobs, queue, nextJob, jobQuery, jobResult, jobWait, njob,
                   nexist, wpc, wjob, cjob, jobLookups, jobRemoved, nstale>>
    /\ UNCHANGED <<lkVars, sumVars, mxVars, dbVars, seVars>>

\* NewJob has returned its job to the client
ClientGotJob(c) ==
    /\ cpc[c] = "newjob"
    /\ npc[c] = "ret"
    /\ cjob' = [cjob EXCEPT ![c] = njob[c]]
    /\ npc' = [npc EXCEPT ![c] = "idle"]
    /\ nquery' = [nquery EXCEPT ![c] = NoQuery]
    /\ njob' = [njob EXCEPT ![c] = NoJob]
    /\ nexist' = [nexist EXCEPT ![c] = FALSE]
    /\ cpc' = [cpc EXCEPT ![c] = "wait"]
    /\ UNCHANGED <<mutex, jobs, queue, nextJob, jobQuery, jobResult, jobWait, wpc,
                   wjob, calls, jobLookups, jobRemoved, nstale>>
    /\ UNCHANGED <<lkVars, sumVars, mxVars, dbVars, seVars>>

\* DnsJob.Wait: job.wait.Wait() returns once the counter is zero
ClientWait(c) ==
    /\ cpc[c] = "wait"
    /\ jobWait[cjob[c]] = 0
    /\ cpc' = [cpc EXCEPT ![c] = "waited"]
    /\ UNCHANGED <<mutex, jobs, queue, nextJob, jobQuery, jobResult, jobWait, npc,
                   nquery, njob, nexist, wpc, wjob, cjob, calls, jobLookups,
                   jobRemoved, nstale>>
    /\ UNCHANGED <<lkVars, sumVars, mxVars, dbVars, seVars>>

\* DnsJob.Results after its Wait: "return job.Result.Results" needs a Result
ClientResults(c) ==
    /\ cpc[c] = "waited"
    /\ jobResult[cjob[c]] # NilPtr
    /\ cpc' = [cpc EXCEPT ![c] = "idle"]
    /\ cjob' = [cjob EXCEPT ![c] = NoJob]
    /\ UNCHANGED <<mutex, jobs, queue, nextJob, jobQuery, jobResult, jobWait, npc,
                   nquery, njob, nexist, wpc, wjob, calls, jobLookups, jobRemoved,
                   nstale>>
    /\ UNCHANGED <<lkVars, sumVars, mxVars, dbVars, seVars>>

DnsNext ==
    \/ \E c \in Clients : NewJobLock(c)
    \/ \E c \in Clients : NewJobCheck(c)
    \/ \E c \in Clients : NewJobUnlock(c)
    \/ \E c \in Clients : NewJobAdd(c)
    \/ \E w \in DnsWorkers : WorkerTake(w)
    \/ \E w \in DnsWorkers : WorkerLookup(w)
    \/ \E w \in DnsWorkers : WorkerLock(w)
    \/ \E w \in DnsWorkers : WorkerDelete(w)
    \/ \E w \in DnsWorkers : WorkerUnlock(w)
    \/ \E w \in DnsWorkers : WorkerDone(w)
    \/ \E c \in Clients : ClientNewJob(c)
    \/ \E c \in Clients : ClientGotJob(c)
    \/ \E c \in Clients : ClientWait(c)
    \/ \E c \in Clients : ClientResults(c)


(***************************************************************************)
(* One DNS lookup on its own: Lookup applied to every reply of a backend.  *)
(***************************************************************************)
AllTypes == {TypeA, TypeAAAA, TypeMX, TypeTLSA}

\* DnsResult.ErrorMessage: the error string or nil
ErrorMessage(result) == IF result.Error = Nil THEN NilPtr ELSE Ptr(result.Error)

LkInit ==
    /\ lpc = "idle"
    /\ lquery = NoQuery
    /\ lreply = [err |-> Nil, rcode |-> RcodeSuccess, answer |-> <<>>]
    /\ lresult = ZeroDnsResult

\* the resolver is asked and replies
LookupAsk ==
    /\ lpc = "idle"
    /\ \E d \in Domains : \E t \in AllTypes : \E reply \in Replies(t) :
          /\ lquery' = DnsQuery(d, t)
          /\ lreply' = reply
    /\ lpc' = "asked"
    /\ UNCHANGED lresult
    /\ UNCHANGED <<dnsVars, sumVars, mxVars, dbVars, seVars>>

\* Lookup returns its DnsResult
LookupReturn ==
    /\ lpc = "asked"
    /\ lresult' = Lookup(lquery, lreply)
    /\ lpc' = "returned"
    /\ UNCHANGED <<lquery, lreply>>
    /\ UNCHANGED <<dnsVars, sumVars, mxVars, dbVars, seVars>>

LkNext == LookupAsk \/ LookupReturn

(***************************************************************************)
(* The host summary: NewMxHostGrab, MxHostSummary.Append, NewMxHostSummary *)
(***************************************************************************)
VersionTLS10 == 769
VersionTLS12 == 771

\* error messages, as sequences of tokens; ": " is a token of its own
SEP == ": "
ErrDial == <<"dial tcp", " 203.0.113.5:25", SEP, "connection refused">>
ErrNoStartTLS == <<"502 command not recognized">>
ErrHandshake == <<"Conversation error", SEP, "remote error", SEP, "handshake failure">>
ErrReadTimeout == <<"read tcp", " 203.0.113.5:25", SEP, "i/o timeout">>

stripErrors == << <<"Conversation error">>, <<"Could not connect">>, <<"dial tcp">>,
                  <<"read tcp">>, <<"write tcp">> >>

\* strings.HasPrefix
HasPrefix(msg, prefix) ==
    Len(prefix) <= Len(msg) /\ SubSeq(msg, 1, Len(prefix)) = prefix

\* mutant of LastIndexSep: the place of the first separator, 0 if none
FirstIndexSep(msg) ==
    LET at == { i \in 1..Len(msg) : msg[i] = SEP }
    IN  IF at = {} THEN 0 ELSE CHOOSE i \in at : \A k \in at : i <= k

\* strings.LastIndex(msg, ": "): the place of the last separator, 0 if none
LastIndexSep(msg) ==
    LET at == { i \in 1..Len(msg) : msg[i] = SEP }
    IN  IF at = {} THEN 0 ELSE CHOOSE i \in at : \A k \in at : k <= i

RECURSIVE simplifyFrom(_, _)
simplifyFrom(msg, n) ==
    IF n > Len(stripErrors) THEN msg
    ELSE IF HasPrefix(msg, stripErrors[n]) /\ LastIndexSep(msg) # 0
         THEN SubSeq(msg, LastIndexSep(msg) + 1, Len(msg))
         ELSE simplifyFrom(msg, n + 1)

\* simplifyError: what follows the last ": " of a message with a known prefix
simplifyError(msg) == simplifyFrom(msg, 1)

\* certificates, leaf first; FingerprintSHA1 is the certificate's sha1 field
CertLeafA == [subject |-> "mx.example", sha1 |-> <<170, 1>>, isCA |-> FALSE,
              notBefore |-> 1, notAfter |-> 3, unhandledCritical |-> FALSE]
CertLeafB == [subject |-> "mx.example", sha1 |-> <<187, 2>>, isCA |-> FALSE,
              notBefore |-> 1, notAfter |-> 3, unhandledCritical |-> TRUE]
CertCA == [subject |-> "Example CA", sha1 |-> <<204, 3>>, isCA |-> TRUE,
           notBefore |-> 1, notAfter |-> 3, unhandledCritical |-> FALSE]
ChainA == <<CertLeafA, CertCA>>
ChainB == <<CertLeafB>>

NoDHParams == [kind |-> "none", CurveType |-> 0, CurveID |-> 0, PublicKeyLength |-> 0]
ECDHEParams(id, len) ==
    [kind |-> "ecdhe", CurveType |-> 3, CurveID |-> id, PublicKeyLength |-> len]
DHEParams == [kind |-> "dhe", CurveType |-> 0, CurveID |-> 0, PublicKeyLength |-> 0]

ServerHello(version, suite) == [Version |-> version, CipherSuite |-> suite]
HandshakeLog(hello, certs, dh) ==
    [ServerHello |-> hello, ServerCertificates |-> certs, DHParams |-> dh]

\* the entries of a banner log
ConnectEvent(err) == [kind |-> "connect", Error |-> err, handshake |-> NilPtr]
StartTLSEvent(err) == [kind |-> "starttls", Error |-> err, handshake |-> NilPtr]
TLSHandshakeEvent(hs, err) == [kind |-> "tls", Error |-> err, handshake |-> Ptr(hs)]

\* the ECDHE curve depends on what the server picks for the offered version
CurveFor(version) == IF version = VersionTLS10 THEN 23 ELSE 24
ChainFor(version) == IF version = VersionTLS10 THEN ChainB ELSE ChainA

\* the TLS handshake events of a probe whose maximum version is cap
TLSEvents(cap) ==
    LET versions == { v \in {VersionTLS10, VersionTLS12} : v <= cap }
    IN  { TLSHandshakeEvent(HandshakeLog(Ptr(ServerHello(v, 49199)),
              Ptr(ChainFor(v)), ECDHEParams(CurveFor(v), 65)), NilPtr) : v \in versions }
        \cup { TLSHandshakeEvent(HandshakeLog(Ptr(ServerHello(v, 47)),
              Ptr(ChainA), NoDHParams), NilPtr) : v \in versions }
        \cup { TLSHandshakeEvent(HandshakeLog(Ptr(ServerHello(v, 51)),
              NilPtr, DHEParams), Ptr(ErrHandshake)) : v \in versions }
        \cup { TLSHandshakeEvent(HandshakeLog(NilPtr, NilPtr, NoDHParams),
              Ptr(ErrReadTimeout)) }

\* the banner logs zlib.GrabBanner may return for a probe capped at cap: the
\* stages of the conversation in order, each present or not, failed or not
Logs(cap) ==
    { c \o st \o t :
        c \in { <<>>, <<ConnectEvent(NilPtr)>>, <<ConnectEvent(Ptr(ErrDial))>> },
        st \in { <<>>, <<StartTLSEvent(NilPtr)>>, <<StartTLSEvent(Ptr(ErrNoStartTLS))>> },
        t \in { <<>> } \cup { <<e>> : e \in TLSEvents(cap) } }

ZeroGrab ==
    [starttls |-> NilPtr, tlsVersion |-> 0, tlsCipherSuite |-> 0,
     certificates |-> NilPtr, dhParams |-> NoDHParams, Error |-> NilPtr]

\* the loop of NewMxHostGrab over the banner log
RECURSIVE grabLoop(_, _, _)
grabLoop(result, tlsHandshake, log) ==
    IF log = <<>> THEN [result |-> result, tlsHandshake |-> tlsHandshake]
    ELSE LET entry == Head(log)
             hs == IF entry.kind = "tls" THEN entry.handshake ELSE tlsHandshake
             r1 == IF entry.kind = "starttls"
                   THEN [result EXCEPT !.starttls = Ptr(entry.Error = NilPtr)]
                   ELSE result
             r2 == IF entry.Error # NilPtr
                   THEN [r1 EXCEPT !.Error = Ptr(simplifyError(Deref(entry.Error)))]
                   ELSE r1
         IN  grabLoop(r2, hs, Tail(log))

\* NewMxHostGrab on the banner log of the probe
NewMxHostGrab(log) ==
    LET looped == grabLoop(ZeroGrab, NilPtr, log)
        tlsHandshake == looped.tlsHandshake
        tlsHello == IF tlsHandshake = NilPtr THEN NilPtr
                    ELSE Deref(tlsHandshake).ServerHello
        r1 == IF tlsHello # NilPtr
              THEN [looped.result EXCEPT !.tlsVersion = Deref(tlsHello).Version,
                                         !.tlsCipherSuite = Deref(tlsHello).CipherSuite]
              ELSE looped.result
    IN  IF tlsHandshake = NilPtr THEN r1
        ELSE [r1 EXCEPT !.certificates = Deref(tlsHandshake).ServerCertificates,
                        !.dhParams = Deref(tlsHandshake).DHParams]

\* mutant of TLSSuccessful: every grab counts as successful
TLSSuccessfulAlways(grab) == TRUE

\* MxHostGrab.TLSSuccessful
TLSSuccessful(grab) == grab.certificates # NilPtr

\* TLSVersion.Bytes / CipherSuite.Bytes: the two bytes of the code, high first
Bytes(code) == <<code \div 256, code % 256>>

ZeroSummary ==
    [Starttls |-> NilPtr, Error |-> NilPtr, tlsVersions |-> NilPtr,
     tlsCipherSuites |-> NilPtr, certificates |-> NilPtr, fingerprints |-> NilPtr,
     validity |-> NilPtr, ecdheCurveType |-> NilPtr, ecdheCurveId |-> NilPtr,
     ecdheKeyLength |-> NilPtr]

\* mutant of AppendCertificates: the chain of every grab replaces the summary's
AppendCertificatesOverwrite(summary, grab) ==
    [summary EXCEPT !.certificates = grab.certificates]

\* Append, "Copy certificates"
AppendCertificates(summary, grab) ==
    IF summary.certificates = NilPtr
    THEN [summary EXCEPT !.certificates = grab.certificates]
    ELSE summary

\* Append, "Copy TLS parameters" and "Copy ECDHE params"
AppendTLSParameters(summary, grab) ==
    IF grab.tlsVersion = 0 THEN summary
    ELSE LET s1 == IF summary.tlsVersions = NilPtr
                   THEN [summary EXCEPT !.tlsVersions = Ptr({}),
                                        !.tlsCipherSuites = Ptr({})]
                   ELSE summary
             s2 == [s1 EXCEPT
                      !.tlsVersions = Ptr(Deref(@) \cup {Bytes(grab.tlsVersion)}),
                      !.tlsCipherSuites = Ptr(Deref(@) \cup {Bytes(grab.tlsCipherSuite)})]
         IN  IF s2.ecdheCurveType = NilPtr /\ grab.dhParams.kind = "ecdhe"
             THEN [s2 EXCEPT !.ecdheCurveType = Ptr(grab.dhParams.CurveType),
                             !.ecdheCurveId = Ptr(grab.dhParams.CurveID),
                             !.ecdheKeyLength = Ptr(grab.dhParams.PublicKeyLength)]
             ELSE s2

\* MxHostSummary.Append
SummaryAppend(summary, grab) ==
    AppendTLSParameters(AppendCertificates(summary, grab), grab)

\* mutant of Fingerprints: the fingerprints in reverse order
FingerprintsReversed(summary) ==
    LET certs == Deref(summary.certificates)
    IN  [i \in 1..Len(certs) |-> certs[Len(certs) + 1 - i].sha1]

\* MxHostSummary.Fingerprints: the SHA-1 fingerprint of every certificate
Fingerprints(summary) ==
    LET certs == Deref(summary.certificates)
    IN  [i \in 1..Len(certs) |-> certs[i].sha1]

\* the points in time at which a summary may be built
Times == {0, 2, 4}

ErrUnhandledCritical == "unhandled critical extension"
ErrUnknownAuthority == "x509: certificate signed by unknown authority"
ErrIncompatibleUsage == "x509: certificate specifies an incompatible key usage"

CertRoot == [subject |-> "Example Root", sha1 |-> <<221, 4>>, isCA |-> TRUE,
             notBefore |-> 0, notAfter |-> 4, unhandledCritical |-> FALSE]

\* what leaf.BuildChains may return: an error, or candidate chains from the
\* leaf over the presented intermediates to a system root; serverAuth tells
\* whether the chain passes FilterChainsByKeyUsage
BuildOutcomes(certs) ==
    LET full == [chain |-> Append(certs, CertRoot), serverAuth |-> TRUE]
        short == [chain |-> <<Head(certs), CertRoot>>, serverAuth |-> TRUE]
        other == [chain |-> <<Head(certs), CertRoot>>, serverAuth |-> FALSE]
    IN  { [err |-> ErrUnknownAuthority, chains |-> <<>>],
          [err |-> Nil, chains |-> <<full>>],
          [err |-> Nil, chains |-> <<other>>],
          [err |-> Nil, chains |-> <<short, full>>],
          [err |-> Nil, chains |-> <<other, full, short>>] }

\* mutant of FilterChainsByKeyUsage: every candidate chain passes
FilterChainsKeepAll(candidates) ==
    candidates

\* x509.FilterChainsByKeyUsage for ExtKeyUsageServerAuth
FilterChainsByKeyUsage(candidates) ==
    SelectSeq(candidates, LAMBDA c : c.serverAuth)

\* mutant of NewCertificateValidity: the chains are built and stored before
\* the critical extensions of the leaf are looked at
NewCertificateValidityChainsFirst(certs, now, built) ==
    LET leaf == Head(certs)
        v == [Expired |-> (now < leaf.notBefore \/ now > leaf.notAfter),
              Error |-> Nil, Certificates |-> certs, TrustedChains |-> {}]
        chains == FilterChainsByKeyUsage(built.chains)
        stored == IF built.err = Nil /\ Len(chains) > 0
                  THEN { <<"system", chains[1].chain>> } ELSE {}
    IN  IF leaf.unhandledCritical
        THEN [v EXCEPT !.Error = ErrUnhandledCritical, !.TrustedChains = stored]
        ELSE IF built.err # Nil THEN [v EXCEPT !.Error = built.err]
        ELSE IF Len(chains) = 0 THEN [v EXCEPT !.Error = ErrIncompatibleUsage]
        ELSE [v EXCEPT !.TrustedChains = stored]

\* NewCertificateValidity gets as far as leaf.BuildChains
BuildChainsCalled(certs) == ~Head(certs).unhandledCritical

\* NewCertificateValidity at time now, with the outcome of leaf.BuildChains
NewCertificateValidity(certs, now, built) ==
    LET leaf == Head(certs)
        v == [Expired |-> (now < leaf.notBefore \/ now > leaf.notAfter),
              Error |-> Nil, Certificates |-> certs, TrustedChains |-> {}]
        chains == FilterChainsByKeyUsage(built.chains)
    IN  IF leaf.unhandledCritical THEN [v EXCEPT !.Error = ErrUnhandledCritical]
        ELSE IF built.err # Nil THEN [v EXCEPT !.Error = built.err]
        ELSE IF Len(chains) = 0 THEN [v EXCEPT !.Error = ErrIncompatibleUsage]
        ELSE [v EXCEPT !.TrustedChains = { <<"system", chains[1].chain>> }]

SumInit ==
    /\ spc = "start"
    /\ log1 = <<>>
    /\ log2 = <<>>
    /\ grab1 = ZeroGrab
    /\ grab2 = ZeroGrab
    /\ probes = 0
    /\ hsum = ZeroSummary
    /\ supplied = {}
    /\ vnow = 0
    /\ vbuilt = NilPtr

\* "The first connection attempt with up to TLS 1.2" and what follows it
SummaryFirstGrab ==
    /\ spc = "start"
    /\ \E log \in Logs(VersionTLS12) :
          LET grab == NewMxHostGrab(log)
              r1 == [ZeroSummary EXCEPT !.Starttls = grab.starttls, !.Error = grab.Error]
              tls == r1.Starttls # NilPtr /\ Deref(r1.Starttls)
          IN  /\ log1' = log
              /\ grab1' = grab
              /\ hsum' = IF tls THEN SummaryAppend(r1, grab) ELSE r1
              /\ spc' = IF tls /\ grab.tlsVersion > VersionTLS10
                        THEN "second" ELSE "finish"
    /\ probes' = probes + 1
    /\ UNCHANGED <<log2, grab2, supplied, vnow, vbuilt>>
    /\ UNCHANGED <<dnsVars, lkVars, mxVars, dbVars, seVars>>

\* "Try TLS 1.0 as well if we just had a higher version"
SummarySecondGrab ==
    /\ spc = "second"
    /\ \E log \in Logs(VersionTLS10) :
          LET grab == NewMxHostGrab(log)
              after == IF TLSSuccessful(grab) THEN SummaryAppend(hsum, grab)
                       ELSE hsum
          IN  /\ log2' = log
              /\ grab2' = grab
              /\ hsum' = after
              /\ supplied' = { f \in DOMAIN hsum : after[f] # hsum[f] }
    /\ probes' = probes + 1
    /\ spc' = "finish"
    /\ UNCHANGED <<log1, grab1, vnow, vbuilt>>
    /\ UNCHANGED <<dnsVars, lkVars, mxVars, dbVars, seVars>>

\* "set fingerprints and certificate validity"
SummaryFinish ==
    /\ spc = "finish"
    /\ IF hsum.certificates # NilPtr
       THEN LET certs == Deref(hsum.certificates)
            IN  \E now \in Times : \E built \in BuildOutcomes(certs) :
                   /\ hsum' = [hsum EXCEPT
                          !.fingerprints = Ptr(Fingerprints(hsum)),
                          !.validity = Ptr(NewCertificateValidity(certs, now, built))]
                   /\ vnow' = now
                   /\ vbuilt' = IF BuildChainsCalled(certs) THEN Ptr(built) ELSE NilPtr
       ELSE UNCHANGED <<hsum, vnow, vbuilt>>
    /\ spc' = "done"
    /\ UNCHANGED <<log1, log2, grab1, grab2, probes, supplied>>
    /\ UNCHANGED <<dnsVars, lkVars, mxVars, dbVars, seVars>>

SumNext == SummaryFirstGrab \/ SummarySecondGrab \/ SummaryFinish

(***************************************************************************)
(* The cached worker pools and the MX processor.                           *)
(***************************************************************************)
Pools == {"mx", "host"}
\* outside callers: the ingress loop resolveDomainMxHosts and a GetValue user
Ingress == "in"
Getter == "gv"
Outsiders == {Ingress, Getter}
PoolCallers == Outsiders \cup MxWorkers
NoEntry == 0
\* a CacheEntry per MX job and per address of an MX job
EntryIds == 1..((Len(HostnameRows) + MaxGetValues) * (1 + Len(addressTypes)))

Capacity(pool) == IF pool = "mx" THEN MxCapacity ELSE HostCapacity

\* net.ParseIP of an address text: the IP the text stands for
KnownIPs == { [family |-> 4, octets |-> <<192, 0, 2, 1>>, text |-> ""],
              [family |-> 4, octets |-> <<192, 0, 2, 2>>, text |-> ""],
              [family |-> 6, octets |-> <<>>, text |-> "2001:db8::1"] }
IPString(ip) == IF ip.family = 4 THEN IPv4String(ip.octets) ELSE ip.text
ParseIP(addr) ==
    IF \E ip \in KnownIPs : IPString(ip) = addr
    THEN Ptr(CHOOSE ip \in KnownIPs : IPString(ip) = addr)
    ELSE NilPtr

\* UniqueStrings: the strings without repetitions, in first-seen order
RECURSIVE UniqueStrings(_)
UniqueStrings(strs) ==
    IF strs = <<>> THEN <<>>
    ELSE LET init == UniqueStrings(SubSeq(strs, 1, Len(strs) - 1))
             last == strs[Len(strs)]
         IN  IF \E i \in 1..Len(init) : init[i] = last THEN init
             ELSE Append(init, last)

\* mutant of GroupResults: the results of the last job come first
RECURSIVE GroupResultsReversed(_)
GroupResultsReversed(group) ==
    IF group = <<>> THEN <<>>
    ELSE GroupResultsReversed(Tail(group)) \o Deref(jobResult[Head(group)]).Results

\* DnsJobs.Results: the flattened results of all jobs of the group
RECURSIVE GroupResults(_)
GroupResults(group) ==
    IF group = <<>> THEN <<>>
    ELSE Deref(jobResult[Head(group)]).Results \o GroupResults(Tail(group))

\* createTxtRecord(hostname, hosts).String(): one group per host summary, in
\* the order of hosts
createTxtRecord(hostname, hosts) ==
    [domain |-> hostname,
     groups |-> [i \in 1..Len(hosts) |->
                    IF hosts[i] = NilPtr THEN [addr |-> "", status |-> "none"]
                    ELSE [addr |-> IPString(Deref(hosts[i]).address),
                          status |-> Deref(hosts[i]).status]]]

\* the summaries a host job may end with (NewMxHostSummary of the address)
HostSummaries(ip) == { [address |-> ip, status |-> st] : st \in {"ok", "error"} }

\* mutant of CacheGet: the lookup never finds an entry
CacheGetMiss(pool, key) == NoEntry

\* the entry of the pool's cache with the given key, NoEntry if there is none
CacheGet(pool, key) ==
    IF \E i \in 1..Len(lru[pool]) : entryKey[lru[pool][i]] = key
    THEN lru[pool][CHOOSE i \in 1..Len(lru[pool]) : entryKey[lru[pool][i]] = key]
    ELSE NoEntry

\* the cache with the entry moved to the most recently used end
Touch(cache, entry) == Append(SelectSeq(cache, LAMBDA e : e # entry), entry)

\* mutant of DoneEntries: every entry counts as done, whatever its state
AnyEntries(cache) == cache

\* the done entries of a cache, least recently used first
DoneEntries(cache) == SelectSeq(cache, LAMBDA e : entryState[e] = "done")

\* the cache with room made for one more entry: at capacity, the least
\* recently used done entry is evicted
MakeRoom(pool) ==
    IF Len(lru[pool]) < Capacity(pool) THEN lru[pool]
    ELSE LET victim == Head(DoneEntries(lru[pool]))
         IN  SelectSeq(lru[pool], LAMBDA e : e # victim)

\* there is room for a new entry, or a done entry to evict
CanInsert(pool) ==
    Len(lru[pool]) < Capacity(pool) \/ DoneEntries(lru[pool]) # <<>>

MxInit ==
    /\ lru = [p \in Pools |-> <<>>]
    /\ pqueue = [p \in Pools |-> <<>>]
    /\ nextEntry = 1
    /\ entryKey = [e \in EntryIds |-> ""]
    /\ entryValue = [e \in EntryIds |-> NilPtr]
    /\ entryState = [e \in EntryIds |-> "free"]
    /\ entryWorks = [e \in EntryIds |-> 0]
    /\ ppc = [x \in PoolCallers |-> "idle"]
    /\ ppool = [x \in PoolCallers |-> ""]
    /\ pkey = [x \in PoolCallers |-> ""]
    /\ pentry = [x \in PoolCallers |-> NoEntry]
    /\ pcreated = [x \in PoolCallers |-> FALSE]
    /\ xpc = [x \in Outsiders |-> "idle"]
    /\ xret = NilPtr
    /\ xsaw = [called |-> FALSE, created |-> FALSE, state |-> "free", entry |-> NoEntry]
    /\ mxCalls = [x \in Outsiders |-> 0]
    /\ mpc = [m \in MxWorkers |-> "idle"]
    /\ mentry = [m \in MxWorkers |-> NoEntry]
    /\ mgroup = [m \in MxWorkers |-> <<>>]
    /\ maddrs = [m \in MxWorkers |-> <<>>]
    /\ mjobs = [m \in MxWorkers |-> <<>>]
    /\ mhosts = [m \in MxWorkers |-> <<>>]
    /\ hpc = [h \in HostWorkers |-> "idle"]
    /\ hentry = [h \in HostWorkers |-> NoEntry]

\* CachedWorkerPool.NewJob, steps 1 and 2: return the entry of the key, or
\* insert a new pending entry; atomic with respect to other NewJob callers
PoolNewJobInsert(x) ==
    /\ ppc[x] = "insert"
    /\ LET pool == ppool[x]
           hit == CacheGet(pool, pkey[x])
       IN  IF hit # NoEntry
           THEN /\ lru' = [lru EXCEPT ![pool] = Touch(@, hit)]
                /\ pentry' = [pentry EXCEPT ![x] = hit]
                /\ pcreated' = [pcreated EXCEPT ![x] = FALSE]
                /\ UNCHANGED <<nextEntry, entryKey, entryState>>
           ELSE /\ CanInsert(pool)
                /\ lru' = [lru EXCEPT ![pool] = Append(MakeRoom(pool), nextEntry)]
                /\ entryKey' = [entryKey EXCEPT ![nextEntry] = pkey[x]]
                /\ entryState' = [entryState EXCEPT ![nextEntry] = "pending"]
                /\ pentry' = [pentry EXCEPT ![x] = nextEntry]
                /\ pcreated' = [pcreated EXCEPT ![x] = TRUE]
                /\ nextEntry' = nextEntry + 1
    /\ ppc' = [ppc EXCEPT ![x] = "enqueue"]
    /\ UNCHANGED <<pqueue, entryValue, entryWorks, ppool, pkey, xpc, xret, xsaw, mxCalls,
                   mpc, mentry, mgroup, maddrs, mjobs, mhosts, hpc, hentry>>
    /\ UNCHANGED <<dnsVars, lkVars, sumVars, dbVars, seVars>>

\* CachedWorkerPool.NewJob, the enqueue outside the lock, and the return
PoolNewJobEnqueue(x) ==
    /\ ppc[x] = "enqueue"
    /\ pqueue' = IF pcreated[x]
                 THEN [pqueue EXCEPT ![ppool[x]] = WorkerPoolAdd(@, pentry[x])]
                 ELSE pqueue
    /\ ppc' = [ppc EXCEPT ![x] = "ret"]
    /\ UNCHANGED <<lru, nextEntry, entryKey, entryValue, entryState, entryWorks, ppool,
                   pkey, pentry, pcreated, xpc, xret, xsaw, mxCalls, mpc, mentry,
                   mgroup, maddrs, mjobs, mhosts, hpc, hentry>>
    /\ UNCHANGED <<dnsVars, lkVars, sumVars, dbVars, seVars>>

\* the worker loop of a cached pool: the entry's work is over, the entry
\* becomes done and its completion is broadcast
PoolMarkDone(states, entry) == [states EXCEPT ![entry] = "done"]

\* the key under which the host processor caches an address
HostKey(addr) == IPString(Deref(ParseIP(addr)))

\* an MX worker receives an entry and work begins: "Do the A/AAAA lookups",
\* the first NewJob of dnsProcessor.NewJobs(hostname, addressTypes)
MxTake(m) ==
    /\ mpc[m] = "idle"
    /\ pqueue["mx"] # <<>>
    /\ LET entry == Head(pqueue["mx"])
       IN  /\ mentry' = [mentry EXCEPT ![m] = entry]
           /\ entryWorks' = [entryWorks EXCEPT ![entry] = @ + 1]
           /\ nquery' = [nquery EXCEPT ![m] = DnsQuery(entryKey[entry], addressTypes[1])]
    /\ pqueue' = [pqueue EXCEPT !["mx"] = Tail(@)]
    /\ npc' = [npc EXCEPT ![m] = "lock"]
    /\ mpc' = [mpc EXCEPT ![m] = "newjobs"]
    /\ UNCHANGED <<lru, nextEntry, entryKey, entryValue, entryState, pcall, outside,
                   mgroup, maddrs, mjobs, mhosts, hostWork>>
    /\ UNCHANGED <<dnsRest, njob, nexist, lkVars, sumVars, dbVars, seVars>>

\* NewJobs: a NewJob has returned; append its job to the group and go on with
\* the next type, or the group is complete
MxGotJob(m) ==
    /\ mpc[m] = "newjobs"
    /\ npc[m] = "ret"
    /\ LET group == Append(mgroup[m], njob[m])
       IN  /\ mgroup' = [mgroup EXCEPT ![m] = group]
           /\ IF Len(group) < Len(addressTypes)
              THEN /\ npc' = [npc EXCEPT ![m] = "lock"]
                   /\ nquery' = [nquery EXCEPT ![m] =
                          DnsQuery(entryKey[mentry[m]], addressTypes[Len(group) + 1])]
                   /\ UNCHANGED mpc
              ELSE /\ npc' = [npc EXCEPT ![m] = "idle"]
                   /\ nquery' = [nquery EXCEPT ![m] = NoQuery]
                   /\ mpc' = [mpc EXCEPT ![m] = "wait"]
    /\ njob' = [njob EXCEPT ![m] = NoJob]
    /\ nexist' = [nexist EXCEPT ![m] = FALSE]
    /\ UNCHANGED <<lru, pqueue, nextEntry, entryKey, entryValue, entryState, entryWorks,
                   pcall, outside, mentry, maddrs, mjobs, mhosts, hostWork>>
    /\ UNCHANGED <<dnsRest, lkVars, sumVars, dbVars, seVars>>

\* "mxAddresses.Wait()", "Save DNS results", "Make addresses unique", and the
\* first hostProcessor.NewJob of "Do the host checks"
MxGroupWait(m) ==
    /\ mpc[m] = "wait"
    /\ \A i \in 1..Len(mgroup[m]) : jobWait[mgroup[m][i]] = 0
    /\ LET addresses == UniqueStrings(GroupResults(mgroup[m]))
       IN  /\ maddrs' = [maddrs EXCEPT ![m] = addresses]
           /\ IF addresses = <<>>
              THEN /\ mpc' = [mpc EXCEPT ![m] = "store"]
                   /\ UNCHANGED pcall
              ELSE /\ mpc' = [mpc EXCEPT ![m] = "hostjobs"]
                   /\ ppc' = [ppc EXCEPT ![m] = "insert"]
                   /\ ppool' = [ppool EXCEPT ![m] = "host"]
                   /\ pkey' = [pkey EXCEPT ![m] = HostKey(addresses[1])]
                   /\ UNCHANGED <<pentry, pcreated>>
    /\ UNCHANGED <<lru, pqueue, nextEntry, entryKey, entryValue, entryState, entryWorks,
                   outside, mentry, mgroup, mjobs, mhosts, hostWork>>
    /\ UNCHANGED <<dnsVars, lkVars, sumVars, dbVars, seVars>>

\* "jobs[i] = hostProcessor.NewJob(net.ParseIP(addr))" has returned
MxGotHostJob(m) ==
    /\ mpc[m] = "hostjobs"
    /\ ppc[m] = "ret"
    /\ LET hostJobs == Append(mjobs[m], pentry[m])
       IN  /\ mjobs' = [mjobs EXCEPT ![m] = hostJobs]
           /\ IF Len(hostJobs) < Len(maddrs[m])
              THEN /\ ppc' = [ppc EXCEPT ![m] = "insert"]
                   /\ pkey' = [pkey EXCEPT ![m] = HostKey(maddrs[m][Len(hostJobs) + 1])]
                   /\ UNCHANGED <<ppool, mpc>>
              ELSE /\ ppc' = [ppc EXCEPT ![m] = "idle"]
                   /\ pkey' = [pkey EXCEPT ![m] = ""]
                   /\ ppool' = [ppool EXCEPT ![m] = ""]
                   /\ mpc' = [mpc EXCEPT ![m] = "hostwait"]
    /\ pentry' = [pentry EXCEPT ![m] = NoEntry]
    /\ pcreated' = [pcreated EXCEPT ![m] = FALSE]
    /\ UNCHANGED <<lru, pqueue, nextEntry, entryKey, entryValue, entryState, entryWorks,
                   outside, mentry, mgroup, maddrs, mhosts, hostWork>>
    /\ UNCHANGED <<dnsVars, lkVars, sumVars, dbVars, seVars>>

\* "Wait for the host checks to be finished": job.Wait() on the next host
\* job, then hosts[i] = its summary
\* mutant of MxHostWait: the summary is put in front of the ones collected
MxHostWaitPrepend(m) ==
    /\ mpc[m] = "hostwait"
    /\ LET i == Len(mhosts[m]) + 1
           job == mjobs[m][i]
       IN  /\ entryState[job] = "done"
           /\ mhosts' = [mhosts EXCEPT ![m] = <<entryValue[job]>> \o @]
           /\ mpc' = [mpc EXCEPT ![m] = IF i = Len(mjobs[m]) THEN "store" ELSE "hostwait"]
    /\ UNCHANGED <<lru, pqueue, nextEntry, entryKey, entryValue, entryState, entryWorks,
                   pcall, outside, mentry, mgroup, maddrs, mjobs, hostWork>>
    /\ UNCHANGED <<dnsVars, lkVars, sumVars, dbVars, seVars>>

MxHostWait(m) ==
    /\ mpc[m] = "hostwait"
    /\ LET i == Len(mhosts[m]) + 1
           job == mjobs[m][i]
       IN  /\ entryState[job] = "done"
           /\ mhosts' = [mhosts EXCEPT ![m] = Append(@, entryValue[job])]
           /\ mpc' = [mpc EXCEPT ![m] = IF i = Len(mjobs[m]) THEN "store" ELSE "hostwait"]
    /\ UNCHANGED <<lru, pqueue, nextEntry, entryKey, entryValue, entryState, entryWorks,
                   pcall, outside, mentry, mgroup, maddrs, mjobs, hostWork>>
    /\ UNCHANGED <<dnsVars, lkVars, sumVars, dbVars, seVars>>

\* mutant of MxStore: the TXT string is built but not stored in the entry
MxStoreNothing(m) ==
    /\ mpc[m] = "store"
    /\ mpc' = [mpc EXCEPT ![m] = "sinks"]
    /\ UNCHANGED <<lru, pqueue, nextEntry, entryKey, entryValue, entryState, entryWorks,
                   pcall, outside, mentry, mgroup, maddrs, mjobs, mhosts, hostWork>>
    /\ UNCHANGED <<dnsVars, lkVars, sumVars, dbVars, seVars>>

\* "txtRecord := createTxtRecord(hostname, hosts)", "entry.Value = &txtString"
MxStore(m) ==
    /\ mpc[m] = "store"
    /\ entryValue' = [entryValue EXCEPT ![mentry[m]] =
           Ptr(createTxtRecord(entryKey[mentry[m]], mhosts[m]))]
    /\ mpc' = [mpc EXCEPT ![m] = "sinks"]
    /\ UNCHANGED <<lru, pqueue, nextEntry, entryKey, entryState, entryWorks,
                   pcall, outside, mentry, mgroup, maddrs, mjobs, mhosts, hostWork>>
    /\ UNCHANGED <<dnsVars, lkVars, sumVars, dbVars, seVars>>

\* "Update Nameserver", "Save to database": the hand-over to the sinks, and
\* work returns
MxSinks(m) ==
    /\ mpc[m] = "sinks"
    /\ mpc' = [mpc EXCEPT ![m] = "return"]
    /\ mgroup' = [mgroup EXCEPT ![m] = <<>>]
    /\ maddrs' = [maddrs EXCEPT ![m] = <<>>]
    /\ mjobs' = [mjobs EXCEPT ![m] = <<>>]
    /\ mhosts' = [mhosts EXCEPT ![m] = <<>>]
    /\ UNCHANGED <<lru, pqueue, nextEntry, entryKey, entryValue, entryState, entryWorks,
                   pcall, outside, mentry, hostWork>>
    /\ UNCHANGED <<dnsVars, lkVars, sumVars, dbVars, seVars>>

\* the MX pool's worker loop after work: the entry is done
MxDone(m) ==
    /\ mpc[m] = "return"
    /\ entryState' = PoolMarkDone(entryState, mentry[m])
    /\ mpc' = [mpc EXCEPT ![m] = "idle"]
    /\ mentry' = [mentry EXCEPT ![m] = NoEntry]
    /\ UNCHANGED <<lru, pqueue, nextEntry, entryKey, entryValue, entryWorks,
                   pcall, outside, mgroup, maddrs, mjobs, mhosts, hostWork>>
    /\ UNCHANGED <<dnsVars, lkVars, sumVars, dbVars, seVars>>

\* a host worker receives an entry
HostTake(h) ==
    /\ hpc[h] = "idle"
    /\ pqueue["host"] # <<>>
    /\ hentry' = [hentry EXCEPT ![h] = Head(pqueue["host"])]
    /\ entryWorks' = [entryWorks EXCEPT ![Head(pqueue["host"])] = @ + 1]
    /\ pqueue' = [pqueue EXCEPT !["host"] = Tail(@)]
    /\ hpc' = [hpc EXCEPT ![h] = "work"]
    /\ UNCHANGED <<lru, nextEntry, entryKey, entryValue, entryState, pcall, outside,
                   mpc, mentry, mgroup, maddrs, mjobs, mhosts>>
    /\ UNCHANGED <<dnsVars, lkVars, sumVars, dbVars, seVars>>

\* the host work: the probes of the address end, with or without an error,
\* and the summary becomes the entry's value
HostWork(h) ==
    /\ hpc[h] = "work"
    /\ \E s \in HostSummaries(Deref(ParseIP(entryKey[hentry[h]]))) :
          entryValue' = [entryValue EXCEPT ![hentry[h]] = Ptr(s)]
    /\ hpc' = [hpc EXCEPT ![h] = "return"]
    /\ UNCHANGED <<lru, pqueue, nextEntry, entryKey, entryState, entryWorks, pcall,
                   outside, mpc, mentry, mgroup, maddrs, mjobs, mhosts, hentry>>
    /\ UNCHANGED <<dnsVars, lkVars, sumVars, dbVars, seVars>>

\* the host pool's worker loop after work: the entry is done
HostDone(h) ==
    /\ hpc[h] = "return"
    /\ entryState' = PoolMarkDone(entryState, hentry[h])
    /\ hpc' = [hpc EXCEPT ![h] = "idle"]
    /\ hentry' = [hentry EXCEPT ![h] = NoEntry]
    /\ UNCHANGED <<lru, pqueue, nextEntry, entryKey, entryValue, entryWorks, pcall,
                   outside, mpc, mentry, mgroup, maddrs, mjobs, mhosts>>
    /\ UNCHANGED <<dnsVars, lkVars, sumVars, dbVars, seVars>>

\* MxProcessor.NewJob(hostname): proc.cache.NewJob(hostname)
MxProcessorNewJob(x, hostname) ==
    /\ ppc[x] = "idle"
    /\ ppc' = [ppc EXCEPT ![x] = "insert"]
    /\ ppool' = [ppool EXCEPT ![x] = "mx"]
    /\ pkey' = [pkey EXCEPT ![x] = hostname]
    /\ UNCHANGED <<pentry, pcreated>>

\* resolveDomainMxHosts: mxProcessor.NewJob(hostname) for the next row
IngressNewJob ==
    /\ xpc[Ingress] = "idle"
    /\ mxCalls[Ingress] < Len(HostnameRows)
    /\ MxProcessorNewJob(Ingress, HostnameRows[mxCalls[Ingress] + 1])
    /\ xpc' = [xpc EXCEPT ![Ingress] = "newjob"]
    /\ mxCalls' = [mxCalls EXCEPT ![Ingress] = @ + 1]
    /\ UNCHANGED <<lru, pqueue, nextEntry, entryKey, entryValue, entryState, entryWorks,
                   xret, xsaw, mpc, mentry, mgroup, maddrs, mjobs, mhosts, hostWork>>
    /\ UNCHANGED <<dnsVars, lkVars, sumVars, dbVars, seVars>>

\* resolveDomainMxHosts: NewJob has returned, its entry is not used
IngressReturn ==
    /\ xpc[Ingress] = "newjob"
    /\ ppc[Ingress] = "ret"
    /\ ppc' = [ppc EXCEPT ![Ingress] = "idle"]
    /\ ppool' = [ppool EXCEPT ![Ingress] = ""]
    /\ pkey' = [pkey EXCEPT ![Ingress] = ""]
    /\ pentry' = [pentry EXCEPT ![Ingress] = NoEntry]
    /\ pcreated' = [pcreated EXCEPT ![Ingress] = FALSE]
    /\ xpc' = [xpc EXCEPT ![Ingress] = "idle"]
    /\ UNCHANGED <<lru, pqueue, nextEntry, entryKey, entryValue, entryState, entryWorks,
                   xret, xsaw, mxCalls, mpc, mentry, mgroup, maddrs, mjobs, mhosts,
                   hostWork>>
    /\ UNCHANGED <<dnsVars, lkVars, sumVars, dbVars, seVars>>

\* GetValue: "job := proc.NewJob(hostname)"
GetValueCall ==
    /\ xpc[Getter] = "idle"
    /\ mxCalls[Getter] < MaxGetValues
    /\ \E hostname \in Hostnames : MxProcessorNewJob(Getter, hostname)
    /\ xpc' = [xpc EXCEPT ![Getter] = "getvalue"]
    /\ mxCalls' = [mxCalls EXCEPT ![Getter] = @ + 1]
    /\ UNCHANGED <<lru, pqueue, nextEntry, entryKey, entryValue, entryState, entryWorks,
                   xret, xsaw, mpc, mentry, mgroup, maddrs, mjobs, mhosts, hostWork>>
    /\ UNCHANGED <<dnsVars, lkVars, sumVars, dbVars, seVars>>

\* what the unsynchronised read of entry.Value may see: the value of a done
\* entry; for a pending entry the stored value or still nil
ReadValue(entry) ==
    IF entryValue[entry] = NilPtr THEN {NilPtr}
    ELSE IF entryState[entry] = "done" THEN {entryValue[entry]}
    ELSE {NilPtr, entryValue[entry]}

\* GetValue: "value, _ := job.Value.(*string); return value"
GetValueRead ==
    /\ xpc[Getter] = "getvalue"
    /\ ppc[Getter] = "ret"
    /\ \E value \in ReadValue(pentry[Getter]) : xret' = value
    /\ xsaw' = [called |-> TRUE, created |-> pcreated[Getter],
                state |-> entryState[pentry[Getter]], entry |-> pentry[Getter]]
    /\ ppc' = [ppc EXCEPT ![Getter] = "idle"]
    /\ ppool' = [ppool EXCEPT ![Getter] = ""]
    /\ pkey' = [pkey EXCEPT ![Getter] = ""]
    /\ pentry' = [pentry EXCEPT ![Getter] = NoEntry]
    /\ pcreated' = [pcreated EXCEPT ![Getter] = FALSE]
    /\ xpc' = [xpc EXCEPT ![Getter] = "idle"]
    /\ UNCHANGED <<lru, pqueue, nextEntry, entryKey, entryValue, entryState, entryWorks,
                   mxCalls, mpc, mentry, mgroup, maddrs, mjobs, mhosts, hostWork>>
    /\ UNCHANGED <<dnsVars, lkVars, sumVars, dbVars, seVars>>

\* the steps of the pipeline's own goroutines
MxProgress ==
    \/ \E m \in MxWorkers : NewJobLock(m)
    \/ \E m \in MxWorkers : NewJobCheck(m)
    \/ \E m \in MxWorkers : NewJobUnlock(m)
    \/ \E m \in MxWorkers : NewJobAdd(m)
    \/ \E w \in MxDnsWorkers : WorkerTake(w)
    \/ \E w \in MxDnsWorkers : WorkerLookup(w)
    \/ \E w \in MxDnsWorkers : WorkerLock(w)
    \/ \E w \in MxDnsWorkers : WorkerDelete(w)
    \/ \E w \in MxDnsWorkers : WorkerUnlock(w)
    \/ \E w \in MxDnsWorkers : WorkerDone(w)
    \/ \E x \in PoolCallers : PoolNewJobInsert(x)
    \/ \E x \in PoolCallers : PoolNewJobEnqueue(x)
    \/ \E m \in MxWorkers : MxTake(m)
    \/ \E m \in MxWorkers : MxGotJob(m)
    \/ \E m \in MxWorkers : MxGroupWait(m)
    \/ \E m \in MxWorkers : MxGotHostJob(m)
    \/ \E m \in MxWorkers : MxHostWait(m)
    \/ \E m \in MxWorkers : MxStore(m)
    \/ \E m \in MxWorkers : MxSinks(m)
    \/ \E m \in MxWorkers : MxDone(m)
    \/ \E h \in HostWorkers : HostTake(h)
    \/ \E h \in HostWorkers : HostWork(h)
    \/ \E h \in HostWorkers : HostDone(h)
    \/ IngressReturn
    \/ GetValueRead

MxNext == MxProgress \/ IngressNewJob \/ GetValueCall

(***************************************************************************)
(* Saving results in the store (database.go).  Every table has a unique    *)
(* key; an INSERT of a key that has a row fails with "duplicate key".      *)
(***************************************************************************)
MaxSaves == 2

Savers == {"s1", "s2"}
DbKeys == {"k1", "k2"}
Tables == {"domains", "mx_records", "raw_certificates", "certificates", "mx_hosts",
           "mx_domains"}

\* the functions with the shape SELECT, then INSERT or UPDATE, and their tables
Upserts == {"saveDomain", "saveMxHostSummary", "saveMxDomain"}
SaveFunctions == Upserts \cup {"saveCertificate", "saveMxAddresses"}
TableOf(function) ==
    CASE function = "saveDomain" -> "domains"
      [] function = "saveMxHostSummary" -> "mx_hosts"
      [] function = "saveMxDomain" -> "mx_domains"
      [] function = "saveCertificate" -> "raw_certificates"
      [] function = "saveMxAddresses" -> "mx_records"

NoSave == [function |-> "", key |-> "", results |-> <<>>]

\* job.Results() of the jobs handed to saveMxAddresses
JobResults ==
    { <<>>, <<"192.0.2.1">>, <<"192.0.2.2">>, <<"192.0.2.1", "192.0.2.1">>,
      <<"192.0.2.1", "192.0.2.2">>, <<"192.0.2.2", "192.0.2.1">> }

NoTx == [deleted |-> {}, inserted |-> {}, todo |-> <<>>]

DbInit ==
    /\ rows = [t \in Tables |-> [k \in DbKeys |-> 0]]
    /\ nextRow = 1
    /\ knownCerts = {}
    /\ dpc = [s \in Savers |-> "idle"]
    /\ dop = [s \in Savers |-> NoSave]
    /\ dseen = [s \in Savers |-> 0]
    /\ dlogged = [s \in Savers |-> FALSE]
    /\ dcalls = [s \in Savers |-> 0]
    /\ mxrec = [k \in DbKeys |-> {}]
    /\ dtx = [s \in Savers |-> NoTx]

\* neither log.Panicln nor log.Fatal has ended the process
Running == \A s \in Savers : dpc[s] \notin {"panicked", "fatal"}

\* the table has a row with the key
HasRow(table, key) == rows[table][key] # 0

\* the table with a new row for the key
InsertRow(table, key) == [rows EXCEPT ![table][key] = nextRow]

\* the saver returns from its save function
Returned(s) ==
    /\ dpc' = [dpc EXCEPT ![s] = "idle"]
    /\ dop' = [dop EXCEPT ![s] = NoSave]
    /\ dseen' = [dseen EXCEPT ![s] = 0]

\* a goroutine calls one of the save functions
SaveCall(s) ==
    /\ Running
    /\ dpc[s] = "idle"
    /\ dcalls[s] < MaxSaves
    /\ \E f \in SaveFunctions : \E k \in DbKeys :
       \E r \in (IF f = "saveMxAddresses" THEN JobResults ELSE { <<>> }) :
          /\ dop' = [dop EXCEPT ![s] = [function |-> f, key |-> k, results |-> r]]
          /\ dpc' = [dpc EXCEPT ![s] =
                 CASE f \in Upserts -> "select"
                   [] f = "saveCertificate" -> "cache"
                   [] f = "saveMxAddresses" -> "delete"]
    /\ dcalls' = [dcalls EXCEPT ![s] = @ + 1]
    /\ dlogged' = [dlogged EXCEPT ![s] = FALSE]
    /\ UNCHANGED <<rows, nextRow, knownCerts, dseen>>
    /\ UNCHANGED <<mxrec, dtx>>
    /\ UNCHANGED <<dnsVars, lkVars, sumVars, mxVars, seVars>>

\* saveDomain, saveMxHostSummary, saveMxDomain: the SELECT by the natural key
SaveSelect(s) ==
    /\ Running
    /\ dpc[s] = "select"
    /\ dop[s].function \in Upserts
    /\ dseen' = [dseen EXCEPT ![s] = rows[TableOf(dop[s].function)][dop[s].key]]
    /\ dpc' = [dpc EXCEPT ![s] =
           IF HasRow(TableOf(dop[s].function), dop[s].key) THEN "update" ELSE "insert"]
    /\ UNCHANGED <<rows, nextRow, knownCerts, dop, dlogged, dcalls>>
    /\ UNCHANGED <<mxrec, dtx>>
    /\ UNCHANGED <<dnsVars, lkVars, sumVars, mxVars, seVars>>

\* case sql.ErrNoRows: the INSERT; any error of it, a duplicate key included,
\* goes to log.Panicln
SaveInsert(s) ==
    /\ Running
    /\ dpc[s] = "insert"
    /\ dop[s].function \in Upserts
    /\ LET table == TableOf(dop[s].function)
       IN  IF HasRow(table, dop[s].key)
           THEN /\ dpc' = [dpc EXCEPT ![s] = "panicked"]
                /\ UNCHANGED <<rows, nextRow, dop, dseen>>
           ELSE /\ rows' = InsertRow(table, dop[s].key)
                /\ nextRow' = nextRow + 1
                /\ Returned(s)
    /\ UNCHANGED <<knownCerts, dlogged, dcalls>>
    /\ UNCHANGED <<mxrec, dtx>>
    /\ UNCHANGED <<dnsVars, lkVars, sumVars, mxVars, seVars>>

\* case nil: the UPDATE of the row
SaveUpdate(s) ==
    /\ Running
    /\ dpc[s] = "update"
    /\ Returned(s)
    /\ UNCHANGED <<rows, nextRow, knownCerts, dlogged, dcalls>>
    /\ UNCHANGED <<mxrec, dtx>>
    /\ UNCHANGED <<dnsVars, lkVars, sumVars, mxVars, seVars>>

\* saveCertificate: "Certificate cached?", else the SELECT
CertSelect(s) ==
    /\ Running
    /\ dpc[s] = "cache"
    /\ IF dop[s].key \in knownCerts
       THEN Returned(s) /\ UNCHANGED knownCerts
       ELSE IF HasRow("raw_certificates", dop[s].key)
       THEN /\ knownCerts' = knownCerts \cup {dop[s].key}
            /\ Returned(s)
       ELSE /\ dpc' = [dpc EXCEPT ![s] = "insertraw"]
            /\ UNCHANGED <<knownCerts, dop, dseen>>
    /\ UNCHANGED <<rows, nextRow, dlogged, dcalls>>
    /\ UNCHANGED <<mxrec, dtx>>
    /\ UNCHANGED <<dnsVars, lkVars, sumVars, mxVars, seVars>>

\* saveCertificate: the INSERT INTO raw_certificates; a duplicate key is
\* "Just a race condition"
CertInsertRaw(s) ==
    /\ Running
    /\ dpc[s] = "insertraw"
    /\ IF HasRow("raw_certificates", dop[s].key)
       THEN /\ dlogged' = [dlogged EXCEPT ![s] = TRUE]
            /\ Returned(s)
            /\ UNCHANGED <<rows, nextRow>>
       ELSE /\ rows' = InsertRow("raw_certificates", dop[s].key)
            /\ nextRow' = nextRow + 1
            /\ dpc' = [dpc EXCEPT ![s] = "insertcert"]
            /\ UNCHANGED <<dop, dseen, dlogged>>
    /\ UNCHANGED <<knownCerts, dcalls>>
    /\ UNCHANGED <<mxrec, dtx>>
    /\ UNCHANGED <<dnsVars, lkVars, sumVars, mxVars, seVars>>

\* saveCertificate: the INSERT INTO certificates and knownCerts.Add
CertInsert(s) ==
    /\ Running
    /\ dpc[s] = "insertcert"
    /\ IF HasRow("certificates", dop[s].key)
       THEN /\ dpc' = [dpc EXCEPT ![s] = "panicked"]
            /\ UNCHANGED <<rows, nextRow, knownCerts, dop, dseen>>
       ELSE /\ rows' = InsertRow("certificates", dop[s].key)
            /\ nextRow' = nextRow + 1
            /\ knownCerts' = knownCerts \cup {dop[s].key}
            /\ Returned(s)
    /\ UNCHANGED <<dlogged, dcalls>>
    /\ UNCHANGED <<mxrec, dtx>>
    /\ UNCHANGED <<dnsVars, lkVars, sumVars, mxVars, seVars>>

\* the other savers with an open transaction on the same hostname and family
OtherTx(s) ==
    { t \in Savers \ {s} :
        /\ dpc[t] = "txinsert"
        /\ dop[t].key = dop[s].key }

\* the saver's next INSERT waits for the end of another transaction, which
\* has inserted the address or deleted its row
WaitsFor(s, t) ==
    /\ dpc[s] = "txinsert"
    /\ dtx[s].todo # <<>>
    /\ t \in OtherTx(s)
    /\ Head(dtx[s].todo) \in dtx[t].inserted \cup dtx[t].deleted

\* the addresses without their order
AddressSet(strs) == { strs[i] : i \in 1..Len(strs) }

\* saveMxAddresses: Begin and the DELETE of the rows of the hostname and
\* family; it waits while another open transaction has deleted one of them
MxAddrDelete(s) ==
    /\ Running
    /\ dpc[s] = "delete"
    /\ \A t \in Savers \ {s} :
          dpc[t] = "txinsert" /\ dop[t].key = dop[s].key =>
              dtx[t].deleted \cap mxrec[dop[s].key] = {}
    /\ dtx' = [dtx EXCEPT ![s] = [deleted |-> mxrec[dop[s].key], inserted |-> {},
                                  todo |-> UniqueStrings(dop[s].results)]]
    /\ dpc' = [dpc EXCEPT ![s] = "txinsert"]
    /\ UNCHANGED <<rows, nextRow, knownCerts, dop, dseen, dlogged, dcalls, mxrec>>
    /\ UNCHANGED <<dnsVars, lkVars, sumVars, mxVars, seVars>>

\* saveMxAddresses: the INSERT of the next address.  A row of the address
\* committed by another transaction gives "duplicate key" ("Just a race
\* condition": Rollback, return); a deadlock with another transaction gives
\* another error (log.Fatal)
MxAddrInsert(s) ==
    /\ Running
    /\ dpc[s] = "txinsert"
    /\ dtx[s].todo # <<>>
    /\ LET address == Head(dtx[s].todo)
           stored == mxrec[dop[s].key] \ dtx[s].deleted
       IN  IF \E t \in Savers : WaitsFor(s, t)
           THEN /\ \E t \in Savers : WaitsFor(s, t) /\ WaitsFor(t, s)
                /\ dpc' = [dpc EXCEPT ![s] = "fatal"]
                /\ UNCHANGED <<dop, dseen, dlogged, dtx>>
           ELSE IF address \in stored
           THEN /\ dlogged' = [dlogged EXCEPT ![s] = TRUE]
                /\ dtx' = [dtx EXCEPT ![s] = NoTx]
                /\ Returned(s)
           ELSE /\ dtx' = [dtx EXCEPT ![s].inserted = @ \cup {address},
                                      ![s].todo = Tail(@)]
                /\ UNCHANGED <<dpc, dop, dseen, dlogged>>
    /\ UNCHANGED <<rows, nextRow, knownCerts, dcalls, mxrec>>
    /\ UNCHANGED <<dnsVars, lkVars, sumVars, mxVars, seVars>>

\* saveMxAddresses: tx.Commit() after the last INSERT
MxAddrCommit(s) ==
    /\ Running
    /\ dpc[s] = "txinsert"
    /\ dtx[s].todo = <<>>
    /\ mxrec' = [mxrec EXCEPT ![dop[s].key] = (@ \ dtx[s].deleted) \cup dtx[s].inserted]
    /\ dtx' = [dtx EXCEPT ![s] = NoTx]
    /\ Returned(s)
    /\ UNCHANGED <<rows, nextRow, knownCerts, dlogged, dcalls>>
    /\ UNCHANGED <<dnsVars, lkVars, sumVars, mxVars, seVars>>

DbNext ==
    \/ \E s \in Savers : SaveCall(s)
    \/ \E s \in Savers : SaveSelect(s)
    \/ \E s \in Savers : SaveInsert(s)
    \/ \E s \in Savers : SaveUpdate(s)
    \/ \E s \in Savers : CertSelect(s)
    \/ \E s \in Savers : CertInsertRaw(s)
    \/ \E s \in Savers : CertInsert(s)
    \/ \E s \in Savers : MxAddrDelete(s)
    \/ \E s \in Savers : MxAddrInsert(s)
    \/ \E s \in Savers : MxAddrCommit(s)

(***************************************************************************)
(* simplifyError on one message.  A message is the sequence of its pieces, *)
(* the separator ": " being a piece of its own.                            *)
(***************************************************************************)
MaxMsgLen == 4

\* the pieces messages are made of: the prefixes of stripErrors, the
\* separator, and other text
Pieces ==
    { stripErrors[n][1] : n \in 1..Len(stripErrors) }
        \cup {SEP, " 203.0.113.5:25", "connection refused", "EOF"}

RECURSIVE SeqsUpTo(_, _)
SeqsUpTo(S, n) ==
    IF n = 0 THEN { <<>> }
    ELSE LET shorter == SeqsUpTo(S, n - 1)
         IN  shorter \cup { Append(q, x) : q \in { r \in shorter : Len(r) = n - 1 }, x \in S }

Messages == SeqsUpTo(Pieces, MaxMsgLen)

SeInit ==
    /\ epc = "start"
    /\ emsg = <<>>
    /\ eout = <<>>

\* simplifyError(err) is called with an error of some message
SimplifyError ==
    /\ epc = "start"
    /\ emsg' \in Messages
    /\ epc' = "called"
    /\ UNCHANGED eout
    /\ UNCHANGED <<dnsVars, lkVars, sumVars, mxVars, dbVars>>

\* simplifyError(err) returns
SimplifyReturn ==
    /\ epc = "called"
    /\ eout' = simplifyError(emsg)
    /\ epc' = "done"
    /\ UNCHANGED emsg
    /\ UNCHANGED <<dnsVars, lkVars, sumVars, mxVars, dbVars>>

SeNext == SimplifyError \/ SimplifyReturn

(***************************************************************************)
(* The specifications: each runs one part and leaves the others as built.  *)
(***************************************************************************)
Init == DnsInit /\ LkInit /\ SumInit /\ MxInit /\ DbInit /\ SeInit

\* the DNS processor with its clients and workers
SpecDns == Init /\ [][DnsNext]_vars

\* single lookups
SpecLookup == Init /\ [][LkNext]_vars

\* the building of one host summary
SpecSummary == Init /\ [][SumNext]_vars

\* simplifyError on every message
SpecSimplify == Init /\ [][SeNext]_vars

\* the goroutines that save results in the store
SpecStore == Init /\ [][DbNext]_vars

\* the MX processor with the DNS processor and the host processor under it
SpecMx == Init /\ [][MxNext]_vars

\* the same, with every goroutine of the pipeline scheduled fairly
SpecMxFair == SpecMx /\ WF_vars(MxProgress)

(***************************************************************************)
(* Properties of the DNS processor.                                        *)
(***************************************************************************)
\* the job waits in the worker pool's channel
Queued(job) == \E i \in 1..Len(queue) : queue[i] = job

\* a worker is executing the job's Lookup
LookingUp(job) == \E w \in DnsWorkers : wjob[w] = job /\ wpc[w] = "lookup"

\* how often the job is in the channel or in a worker's hands
Occurrences(job) ==
    Cardinality({ i \in 1..Len(queue) : queue[i] = job })
        + Cardinality({ w \in DnsWorkers : wjob[w] = job })

JobsOf(query) == { j \in JobIds : Created(j) /\ jobQuery[j] = query }

RECURSIVE SumOver(_, _)
SumOver(f, S) ==
    IF S = {} THEN 0
    ELSE LET x == CHOOSE y \in S : TRUE IN f[x] + SumOver(f, S \ {x})

\* number of Lookups done for the query, over all its jobs
LookupsOf(query) == SumOver(jobLookups, JobsOf(query))

\* number of jobs of the query that their worker has removed from the map
RemovalsOf(query) == Cardinality({ j \in JobsOf(query) : jobRemoved[j] })

\* C2: at most one DnsJob per DnsQuery is queued or executing its Lookup at
\* any time; a NewJob that finds a job for its query in the in-flight map
\* takes that very job, and a job is enqueued once only (a deduplicated NewJob
\* enqueues nothing).
C2_OneJobInFlightPerQuery ==
    /\ \A q \in Queries :
          Cardinality({ j \in JobsOf(q) : Queued(j) \/ LookingUp(j) }) <= 1
    /\ \A j \in JobIds : Occurrences(j) <= 1
    /\ \A j \in JobIds : Queued(j) \/ LookingUp(j) => jobs[jobQuery[j]] = j
    /\ \A c \in Callers :
          npc[c] = "unlock" /\ nexist[c] =>
              /\ njob[c] = jobs[nquery[c]]
              /\ jobQuery[njob[c]] = nquery[c]

\* C2 witness: a NewJob returns the job a worker is looking up right now,
\* having found it in the map
C2_Witness ==
    \E c \in Callers : \E w \in DnsWorkers :
        /\ npc[c] = "ret" /\ nexist[c]
        /\ wjob[w] = njob[c] /\ wpc[w] = "lookup"
        /\ queue = <<>>

\* C3 as claimed: within one run each DNS query is looked up at most once
C3_LookedUpAtMostOnce == \A q \in Queries : LookupsOf(q) <= 1

\* C3 as amended: each DnsJob is looked up at most once, and a query is looked
\* up again only for a NewJob that came after the earlier job of the query was
\* removed from the in-flight map: the Lookups of a query never exceed one
\* more than the jobs of that query already removed.
C3_LookedUpOncePerInFlightJob ==
    /\ \A j \in JobIds : jobLookups[j] <= 1
    /\ \A q \in Queries : LookupsOf(q) <= 1 + RemovalsOf(q)

\* C3 witness: a query has been looked up twice, by two successive jobs
C3_Witness ==
    \E q \in Queries : LookupsOf(q) = 2 /\ RemovalsOf(q) >= 1

\* C4: the worker writes the result, then removes the job from the in-flight
\* map under the mutex, then fires the completion signal; so once a waiter has
\* returned from Wait() on a job the job is out of the map, and no NewJob
\* picks a job that has already completed.
C4_CompletionOrder ==
    /\ \A w \in DnsWorkers :
          /\ wpc[w] \in {"lock", "delete", "unlock", "done"} =>
                jobResult[wjob[w]] # NilPtr /\ ~Completed(wjob[w])
          /\ wpc[w] \in {"delete", "unlock"} => mutex = w
          /\ wpc[w] \in {"unlock", "done"} => jobRemoved[wjob[w]]
          /\ wpc[w] \in {"lookup", "lock", "delete"} => ~jobRemoved[wjob[w]]
    /\ \A j \in JobIds :
          Completed(j) =>
              jobResult[j] # NilPtr /\ jobRemoved[j] /\ jobs[jobQuery[j]] # j
    /\ \A c \in Clients :
          cpc[c] = "waited" => Completed(cjob[c]) /\ jobs[jobQuery[cjob[c]]] # cjob[c]
    /\ \A c \in Callers : ~nstale[c]

\* C4 witness: a waiter has returned from Wait() on a job, and a NewJob for
\* the same query returns another, new job
C4_Witness ==
    \E c1 \in Clients : \E c2 \in Callers :
        /\ cpc[c1] = "waited"
        /\ npc[c2] = "ret" /\ ~nexist[c2]
        /\ nquery[c2] = jobQuery[cjob[c1]]
        /\ njob[c2] # cjob[c1]

\* C5 as claimed: every DnsJob whose completion signal has not fired has its
\* entry in the in-flight map, keyed by its query
C5_PendingJobInMap ==
    \A j \in JobIds :
        Created(j) /\ ~Completed(j) =>
            /\ jobs[jobQuery[j]] = j
            /\ \A q \in Queries : jobs[q] = j => q = jobQuery[j]

\* C5 as amended: every DnsJob whose completion signal has not fired either
\* has exactly one entry in the in-flight map, keyed by its query, or is in
\* the hands of the worker that has just deleted that entry and is about to
\* fire the signal; the job leaves the map before its completion, not with it
C5_PendingJobInMapUntilRemoved ==
    \A j \in JobIds :
        Created(j) /\ ~Completed(j) =>
            /\ \/ jobs[jobQuery[j]] = j
               \/ \E w \in DnsWorkers : wjob[w] = j /\ wpc[w] \in {"unlock", "done"}
            /\ \A q \in Queries : jobs[q] = j => q = jobQuery[j]

\* C5 witness: a job is out of the map and its signal has not fired yet, while
\* another pending job sits in the map
C5_Witness ==
    \E w \in DnsWorkers : \E j \in JobIds :
        /\ wpc[w] = "done" /\ ~Completed(wjob[w])
        /\ jobs[jobQuery[wjob[w]]] # wjob[w]
        /\ j # wjob[w] /\ Created(j) /\ ~Completed(j) /\ jobs[jobQuery[j]] = j


(***************************************************************************)
(* Properties of the cached pools and of the MX processor                  *)
(***************************************************************************)
\* the entries ever created for a key of the MX pool
MxEntriesOf(hostname) ==
    { e \in EntryIds : entryState[e] # "free" /\ entryKey[e] = hostname }

\* the entries ever created in the MX pool
MxEntries == UNION { MxEntriesOf(hostname) : hostname \in Hostnames }

\* the entry is in the cache of some pool
Cached(entry) == \E pool \in Pools : \E i \in 1..Len(lru[pool]) : lru[pool][i] = entry

\* the entries ever created for the key, in whichever pool
EntriesOf(key) == { e \in EntryIds : entryState[e] # "free" /\ entryKey[e] = key }

\* the keys used in the two pools
PoolKeys == Hostnames \cup { IPString(ip) : ip \in KnownIPs }

\* C1 as claimed: for every key, work is invoked once over all NewJob calls
\* of the key and all calls return the same entry handle (there is one entry
\* per key, whatever was inserted and evicted in between)
C1_WorkOncePerKey ==
    \A k \in PoolKeys :
        /\ Cardinality(EntriesOf(k)) <= 1
        /\ SumOver(entryWorks, EntriesOf(k)) <= 1

\* C1 as amended: work is invoked at most once per cache entry, and exactly
\* once for an entry that is done; no two entries with the same key are in a
\* cache together, a cache never exceeds its capacity, a pending entry is
\* never evicted, and a NewJob returns the entry cached under its key at that
\* moment.  A key gets a further entry, and with it a further invocation of
\* work, only after its earlier entry was evicted as done.
C1_WorkOncePerCachedEntry ==
    /\ \A e \in EntryIds :
          /\ entryWorks[e] <= 1
          /\ entryState[e] = "done" => entryWorks[e] = 1
          /\ entryState[e] = "pending" => Cached(e)
    /\ \A pool \in Pools :
          /\ Len(lru[pool]) <= Capacity(pool)
          /\ \A i, j \in 1..Len(lru[pool]) :
                i # j => entryKey[lru[pool][i]] # entryKey[lru[pool][j]]
    /\ \A k \in PoolKeys :
          Cardinality(EntriesOf(k)) <=
              1 + Cardinality({ e \in EntriesOf(k) : entryState[e] = "done" /\ ~Cached(e) })
    /\ \A x \in PoolCallers :
          ppc[x] \in {"enqueue", "ret"} =>
              /\ entryKey[pentry[x]] = pkey[x]
              /\ \A y \in PoolCallers :
                    /\ ppc[y] \in {"enqueue", "ret"}
                    /\ pkey[y] = pkey[x]
                    /\ Cached(pentry[x]) /\ Cached(pentry[y])
                    => pentry[y] = pentry[x]

\* C1 witness: a hostname has had two entries, each worked once; the first
\* was evicted as done before the NewJob that made the second
C1_Witness ==
    \E k \in Hostnames : \E e1, e2 \in MxEntriesOf(k) :
        /\ e1 # e2
        /\ entryWorks[e1] = 1 /\ entryWorks[e2] = 1
        /\ entryState[e1] = "done" /\ ~Cached(e1)

\* C6: with every goroutine of the pipeline scheduled fairly and every lookup
\* and probe ending, whenever an MX job is pending there comes a moment at
\* which every MX job submitted so far is done: a worker waiting on its DNS
\* jobs and host jobs is never stuck, whatever the lookups and probes return
\* and however full the host cache is.
C6_MxJobsReachDone ==
    (\E e \in MxEntries : entryState[e] = "pending")
        ~> (\A e \in MxEntries : entryState[e] = "done")

\* C6 witness: every row's MX job is done, one after a failed lookup and one
\* after a failed probe, with the host cache filled to its capacity
C6_Witness ==
    /\ Cardinality({ e \in MxEntries : entryState[e] = "done" }) >= Len(HostnameRows)
    /\ Len(lru["host"]) = HostCapacity
    /\ \E j \in JobIds : jobResult[j] # NilPtr /\ Deref(jobResult[j]).Error # Nil
    /\ \E e \in EntryIds :
          /\ entryState[e] = "done" /\ entryKey[e] \notin Hostnames
          /\ Deref(entryValue[e]).status = "error"

\* C7 as claimed: GetValue returns the TXT string if and only if the entry
\* was done when GetValue looked at it
C7_ValueIffDone ==
    xsaw.called => (xret # NilPtr <=> xsaw.state = "done")

\* C7 as amended: GetValue returns the TXT string whenever the entry is done
\* when it reads entry.Value, and nil whenever work has not yet stored the
\* string; the string is stored before work hands over to the sinks and
\* returns, so for an entry still pending in that interval GetValue may
\* return the string already.  A returned string is the entry's final value.
C7_ValueIffStored ==
    /\ \A e \in MxEntries :
          /\ entryState[e] = "done" => entryValue[e] # NilPtr
          /\ entryWorks[e] = 0 => entryValue[e] = NilPtr
    /\ \A m \in MxWorkers :
          mpc[m] \in {"newjobs", "wait", "hostjobs", "hostwait", "store"} =>
              entryValue[mentry[m]] = NilPtr
    /\ xsaw.called =>
          /\ xsaw.state = "done" => xret # NilPtr
          /\ xret = NilPtr => xsaw.state = "pending"
          /\ xret # NilPtr =>
                /\ xret = entryValue[xsaw.entry]
                /\ Deref(xret).domain = entryKey[xsaw.entry]
                /\ \/ entryState[xsaw.entry] = "done"
                   \/ \E m \in MxWorkers :
                         mentry[m] = xsaw.entry /\ mpc[m] \in {"sinks", "return"}

\* C7 witness: GetValue has returned the string of an entry that was still
\* pending when it read the value
C7_Witness ==
    xsaw.called /\ xsaw.state = "pending" /\ xret # NilPtr


(***************************************************************************)
(* Properties of Lookup                                                    *)
(***************************************************************************)
\* the reply is an NXDOMAIN response that came without a transport error
NxDomainReply(query, reply) ==
    /\ reply.err = Nil
    /\ IF query.Type = TypeTLSA THEN reply.nxDomain ELSE reply.rcode = RcodeNameError

\* C8: a lookup answered with NXDOMAIN, on either backend and without a
\* transport error, returns a DnsResult with no Results and an Error that is
\* not nil, so that ErrorMessage() is not nil.
C8_NxDomainHasError ==
    lpc = "returned" /\ NxDomainReply(lquery, lreply) =>
        /\ lresult.Results = <<>>
        /\ lresult.Error # Nil
        /\ ErrorMessage(lresult) # NilPtr

(***************************************************************************)
(* Properties of the host summary                                          *)
(***************************************************************************)
\* the first grab was appended to the summary
FirstAppended == grab1.starttls # NilPtr /\ Deref(grab1.starttls)

\* the second grab was made and appended to the summary
SecondAppended ==
    /\ FirstAppended
    /\ grab1.tlsVersion > VersionTLS10
    /\ probes = 2
    /\ TLSSuccessful(grab2)

\* the grab carries TLS parameters with an ECDHE key exchange
HasECDHE(grab) == grab.tlsVersion # 0 /\ grab.dhParams.kind = "ecdhe"

\* the ECDHE fields of a summary, and those a grab would give it
SummaryCurve(summary) ==
    <<summary.ecdheCurveType, summary.ecdheCurveId, summary.ecdheKeyLength>>
GrabCurve(grab) ==
    <<Ptr(grab.dhParams.CurveType), Ptr(grab.dhParams.CurveID),
      Ptr(grab.dhParams.PublicKeyLength)>>
NoCurve == <<NilPtr, NilPtr, NilPtr>>

SetFields == {"tlsVersions", "tlsCipherSuites"}
CurveFields == {"ecdheCurveType", "ecdheCurveId", "ecdheKeyLength"}

\* C9 as claimed: the chain and the ECDHE curve of a summary are those of the
\* first grab, and the second grab changes the version and cipher-suite sets
\* only
C9_ChainAndCurveOfFirstGrabOnly ==
    spc \in {"finish", "done"} =>
        /\ supplied \subseteq SetFields
        /\ hsum.certificates # NilPtr => hsum.certificates = grab1.certificates
        /\ SummaryCurve(hsum) # NoCurve =>
              HasECDHE(grab1) /\ SummaryCurve(hsum) = GrabCurve(grab1)

\* C9 as amended: the chain of a summary is that of the first appended grab
\* that has one, and its ECDHE curve that of the first appended grab with an
\* ECDHE key exchange.  The second grab never replaces a chain or a curve the
\* first grab gave, but it supplies the chain when the first grab had none,
\* and the curve when the first grab's key exchange was not ECDHE.
C9_ChainAndCurveOfFirstGrabThatHasThem ==
    spc \in {"finish", "done"} =>
        /\ hsum.certificates =
              IF FirstAppended /\ grab1.certificates # NilPtr THEN grab1.certificates
              ELSE IF SecondAppended THEN grab2.certificates
              ELSE NilPtr
        /\ SummaryCurve(hsum) =
              IF FirstAppended /\ HasECDHE(grab1) THEN GrabCurve(grab1)
              ELSE IF SecondAppended /\ HasECDHE(grab2) THEN GrabCurve(grab2)
              ELSE NoCurve
        /\ supplied \subseteq SetFields \cup CurveFields \cup {"certificates"}
        /\ "certificates" \in supplied => grab1.certificates = NilPtr
        /\ supplied \cap CurveFields # {} => ~HasECDHE(grab1)

\* C9 witness: the second grab has given the summary its chain and its curve
C9_Witness ==
    /\ spc = "done"
    /\ "certificates" \in supplied
    /\ CurveFields \subseteq supplied
    /\ hsum.certificates = grab2.certificates
    /\ SummaryCurve(hsum) = GrabCurve(grab2)

\* the simplified error of the earliest entry of the log that has one
RECURSIVE FirstError(_)
FirstError(log) ==
    IF log = <<>> THEN NilPtr
    ELSE IF Head(log).Error # NilPtr
    THEN Ptr(simplifyError(Deref(Head(log).Error)))
    ELSE FirstError(Tail(log))

ReachedAboveTLS10 == FirstAppended /\ grab1.tlsVersion > VersionTLS10

\* the summary as the first grab alone leaves it
AfterFirstGrab ==
    LET r1 == [ZeroSummary EXCEPT !.Starttls = grab1.starttls, !.Error = grab1.Error]
    IN  IF FirstAppended THEN SummaryAppend(r1, grab1) ELSE r1

PastGroupWait(m) == mpc[m] \in {"hostjobs", "hostwait", "store", "sinks"}

\* the index of the first occurrence of x in seq
FirstIndex(seq, x) ==
    CHOOSE i \in 1..Len(seq) : seq[i] = x /\ \A j \in 1..(i - 1) : seq[j] # x

\* addrs lists the strings of found, each once, in the order of their first
\* occurrence
DiscoveryOrder(addrs, found) ==
    /\ \A i, j \in 1..Len(addrs) : i # j => addrs[i] # addrs[j]
    /\ { addrs[i] : i \in 1..Len(addrs) } = { found[i] : i \in 1..Len(found) }
    /\ \A i, j \in 1..Len(addrs) :
          i < j => FirstIndex(found, addrs[i]) < FirstIndex(found, addrs[j])

\* C12: the TXT record of an MX job has one group per distinct address of
\* the A and AAAA results, in the order of first discovery, and its i-th
\* group carries the summary of the host job submitted for the i-th address,
\* whichever host job completed first.
C12_OneGroupPerAddressInOrder ==
    \A m \in MxWorkers :
        /\ PastGroupWait(m) => DiscoveryOrder(maddrs[m], GroupResults(mgroup[m]))
        /\ mpc[m] = "sinks" =>
              LET txt == Deref(entryValue[mentry[m]])
              IN  /\ txt.domain = entryKey[mentry[m]]
                  /\ Len(txt.groups) = Len(maddrs[m])
                  /\ Len(mjobs[m]) = Len(maddrs[m])
                  /\ \A i \in 1..Len(maddrs[m]) :
                        /\ txt.groups[i].addr = maddrs[m][i]
                        /\ entryKey[mjobs[m][i]] = HostKey(maddrs[m][i])
                        /\ txt.groups[i].status = Deref(entryValue[mjobs[m][i]]).status

\* C12 witness: a TXT record with two groups of different status from three
\* results, where the host job of the second address is that of an earlier
\* MX job and was done before the host job of the first address was made
C12_Witness ==
    \E m \in MxWorkers :
        /\ mpc[m] = "sinks"
        /\ Len(GroupResults(mgroup[m])) = 3
        /\ Len(maddrs[m]) = 2
        /\ mjobs[m][2] < mjobs[m][1]
        /\ Deref(entryValue[mentry[m]]).groups[1].status
              # Deref(entryValue[mentry[m]]).groups[2].status

\* the results of the i-th job of a group
ResultsOf(group, i) == Deref(jobResult[group[i]]).Results

\* the number of results of the jobs before the i-th
RECURSIVE Offset(_, _)
Offset(group, i) ==
    IF i = 1 THEN 0 ELSE Offset(group, i - 1) + Len(ResultsOf(group, i - 1))

\* C13: a group made by NewJobs(domain, types) has one job per type, in the
\* order of the types; Wait() on the group returns only when every job of it
\* has completed; and Results() is the results of the jobs one after the
\* other in that order, as many as the jobs have together.
C13_GroupOfJobs ==
    \A m \in MxWorkers :
        /\ mpc[m] = "newjobs" => Len(mgroup[m]) < Len(addressTypes)
        /\ mpc[m] = "wait" \/ PastGroupWait(m) => Len(mgroup[m]) = Len(addressTypes)
        /\ \A i \in 1..Len(mgroup[m]) :
              jobQuery[mgroup[m][i]] = DnsQuery(entryKey[mentry[m]], addressTypes[i])
        /\ PastGroupWait(m) =>
              /\ \A i \in 1..Len(mgroup[m]) :
                    Completed(mgroup[m][i]) /\ jobResult[mgroup[m][i]] # NilPtr
              /\ Len(GroupResults(mgroup[m])) = Offset(mgroup[m], Len(mgroup[m]) + 1)
              /\ \A i \in 1..Len(mgroup[m]) :
                    \A k \in 1..Len(ResultsOf(mgroup[m], i)) :
                        GroupResults(mgroup[m])[Offset(mgroup[m], i) + k]
                            = ResultsOf(mgroup[m], i)[k]

\* C13 witness: Wait() on a group has returned; its A job has two results
\* and its AAAA job one
C13_Witness ==
    \E m \in MxWorkers :
        /\ mpc[m] = "hostjobs"
        /\ Len(ResultsOf(mgroup[m], 1)) = 2
        /\ Len(ResultsOf(mgroup[m], 2)) = 1
        /\ Len(GroupResults(mgroup[m])) = 3


(***************************************************************************)
(* Properties of the fingerprints and of the certificate validity          *)
(***************************************************************************)
\* the chains validated for the summary, one per root store
ValidatedChains(summary) ==
    IF summary.validity = NilPtr THEN {}
    ELSE { pair[2] : pair \in Deref(summary.validity).TrustedChains }

\* the fingerprint is that of a CA certificate of a validated chain
OfValidatedCA(summary, fingerprint) ==
    \E chain \in ValidatedChains(summary) : \E k \in 2..Len(chain) :
        chain[k].isCA /\ chain[k].sha1 = fingerprint

\* C14 as claimed: the fingerprints of a summary begin with that of the
\* server certificate, and every further one is that of a CA certificate of
\* the validated chain
C14_FingerprintsOfValidatedChain ==
    spc = "done" /\ hsum.fingerprints # NilPtr =>
        LET fps == Deref(hsum.fingerprints)
        IN  /\ fps[1] = Deref(hsum.certificates)[1].sha1
            /\ \A i \in 2..Len(fps) : OfValidatedCA(hsum, fps[i])

\* C14 as amended: the fingerprints of a summary are those of the
\* certificates the server presented, in the order presented, the server
\* certificate's first; the further ones are there whether or not a chain
\* was validated and whether or not the validated chain contains them.  A
\* finished summary has fingerprints exactly when it has certificates.
C14_FingerprintsOfPresentedChain ==
    /\ spc = "done" => (hsum.fingerprints # NilPtr <=> hsum.certificates # NilPtr)
    /\ hsum.fingerprints # NilPtr =>
          LET fps == Deref(hsum.fingerprints)
              certs == Deref(hsum.certificates)
          IN  /\ Len(fps) = Len(certs)
              /\ fps[1] = certs[1].sha1
              /\ \A i \in 2..Len(fps) : fps[i] = certs[i].sha1
              /\ Deref(hsum.validity).Certificates = certs

\* C14 witness: a summary with the fingerprint of a presented CA certificate
\* while the chain that was validated goes from the leaf to the root without
\* that certificate
C14_Witness ==
    /\ spc = "done"
    /\ hsum.fingerprints # NilPtr
    /\ Len(Deref(hsum.fingerprints)) = 2
    /\ ~OfValidatedCA(hsum, Deref(hsum.fingerprints)[2])
    /\ Deref(hsum.validity).Error = Nil


(***************************************************************************)
(* Properties of the store                                                 *)
(***************************************************************************)
\* C15: a duplicate key reported by the store is logged and ignored by every
\* save function: when two goroutines save a record of the same natural key
\* at the same time, neither call panics or ends the process (and the table,
\* its key being unique, has one row of the key).
C15_DuplicateKeyIgnored ==
    \A s \in Savers : dpc[s] # "panicked"


(***************************************************************************)
(* Properties of simplifyError                                             *)
(***************************************************************************)
\* the message begins with one of the prefixes of stripErrors
KnownPrefix(msg) ==
    \E n \in 1..Len(stripErrors) :
        /\ Len(stripErrors[n]) <= Len(msg)
        /\ \A i \in 1..Len(stripErrors[n]) : msg[i] = stripErrors[n][i]

\* out is what follows the last separator of msg
AfterLastSep(msg, out) ==
    \E i \in 1..Len(msg) :
        /\ msg[i] = SEP
        /\ \A k \in (i + 1)..Len(msg) : msg[k] # SEP
        /\ Len(out) = Len(msg) - i
        /\ \A k \in 1..Len(out) : out[k] = msg[i + k]

\* C16: simplifyError returns the text after the last ": " of a message that
\* begins with one of the five prefixes and has a ": ", and the message
\* unchanged otherwise; "dial tcp 203.0.113.5:25: connection refused" gives
\* "connection refused".
C16_SimplifyError ==
    /\ stripErrors = << <<"Conversation error">>, <<"Could not connect">>,
                        <<"dial tcp">>, <<"read tcp">>, <<"write tcp">> >>
    /\ epc = "done" =>
          /\ IF KnownPrefix(emsg) /\ \E i \in 1..Len(emsg) : emsg[i] = SEP
             THEN AfterLastSep(emsg, eout)
             ELSE eout = emsg
          /\ emsg = <<"dial tcp", " 203.0.113.5:25", SEP, "connection refused">>
                => eout = <<"connection refused">>

\* C16 witness: a message with a known prefix and two separators has been
\* simplified to the text after the second
C16_Witness ==
    /\ epc = "done"
    /\ emsg = <<"dial tcp", SEP, "EOF", SEP>> \/ emsg = <<"read tcp", SEP, SEP, "EOF">>
    /\ Len(eout) < 2


(***************************************************************************)
(* Properties of NewCertificateValidity                                    *)
(***************************************************************************)
\* a summary whose certificate validity has been set
Validated == spc = "done" /\ hsum.validity # NilPtr

\* C17: when the leaf has an unhandled critical extension, the validity has
\* the error "unhandled critical extension", leaf.BuildChains is not called
\* and no chain is stored, and Expired still tells whether the current time
\* is outside the leaf's validity window.
C17_UnhandledCriticalExtension ==
    Validated /\ Deref(hsum.certificates)[1].unhandledCritical =>
        LET v == Deref(hsum.validity)
            leaf == v.Certificates[1]
        IN  /\ v.Error = "unhandled critical extension"
            /\ vbuilt = NilPtr
            /\ v.TrustedChains = {}
            /\ v.Expired <=> (vnow < leaf.notBefore \/ vnow > leaf.notAfter)

\* C17 witness: the validity of a leaf with an unhandled critical extension,
\* made after the leaf's validity window
C17_Witness ==
    /\ Validated
    /\ Deref(hsum.certificates)[1].unhandledCritical
    /\ Deref(hsum.validity).Expired
    /\ vnow > Deref(hsum.certificates)[1].notAfter

\* chain is the first of the candidate chains that passes the usage filter
FirstSurviving(candidates, chain) ==
    \E i \in 1..Len(candidates) :
        /\ candidates[i].serverAuth
        /\ \A k \in 1..(i - 1) : ~candidates[k].serverAuth
        /\ chain = candidates[i].chain

\* C18: TrustedChains of a validity is non-empty exactly when its Error is
\* nil; it then has the one key "system" with the first candidate chain that
\* passed the server-auth filter; when chains were built and none passes the
\* filter, the Error is the incompatible-usage error.
C18_TrustedChainsIffNoError ==
    Validated =>
        LET v == Deref(hsum.validity)
        IN  /\ v.TrustedChains # {} <=> v.Error = Nil
            /\ v.TrustedChains # {} =>
                  /\ vbuilt # NilPtr
                  /\ Cardinality(v.TrustedChains) = 1
                  /\ \A entry \in v.TrustedChains :
                        /\ entry[1] = "system"
                        /\ FirstSurviving(Deref(vbuilt).chains, entry[2])
            /\ ( /\ vbuilt # NilPtr
                 /\ Deref(vbuilt).err = Nil
                 /\ \A i \in 1..Len(Deref(vbuilt).chains) :
                       ~Deref(vbuilt).chains[i].serverAuth )
                  => v.Error = ErrIncompatibleUsage

\* C18 witness: three candidate chains were built, the first fails the usage
\* filter, and the second is the one stored
C18_Witness ==
    /\ Validated
    /\ vbuilt # NilPtr
    /\ Len(Deref(vbuilt).chains) = 3
    /\ ~Deref(vbuilt).chains[1].serverAuth
    /\ Deref(hsum.validity).TrustedChains = { <<"system", Deref(vbuilt).chains[2].chain>> }


(***************************************************************************)
(* Properties of the eviction of the cached worker pools                   *)
(***************************************************************************)
\* the entry is in the cache of some pool
InCache(e) == \E pool \in Pools : \E i \in 1..Len(lru[pool]) : lru[pool][i] = e

\* every entry of the pool's cache is pending and the cache is at capacity
AllPending(pool) ==
    /\ Len(lru[pool]) = Capacity(pool)
    /\ \A i \in 1..Len(lru[pool]) : entryState[lru[pool][i]] = "pending"

\* the caller is in NewJob with a key the cache does not hold
WantsNewKey(x) ==
    /\ ppc[x] = "insert"
    /\ \A i \in 1..Len(lru[ppool[x]]) : entryKey[lru[ppool[x]][i]] # pkey[x]

\* C19: a pending entry is never evicted: every pending entry is in its cache
\* and no cache holds more than its capacity; while all entries of a cache at
\* capacity are pending, a NewJob for a new key stays blocked and the cache
\* stays as it is.
C19_PendingNeverEvicted ==
    /\ [](\A e \in EntryIds : entryState[e] = "pending" => InCache(e))
    /\ [](\A pool \in Pools : Len(lru[pool]) <= Capacity(pool))
    /\ [][\A x \in PoolCallers :
            WantsNewKey(x) /\ AllPending(ppool[x]) =>
                /\ ppc'[x] = "insert"
                /\ pentry'[x] = pentry[x]
                /\ lru'[ppool[x]] = lru[ppool[x]]]_vars

\* C19 witness: a caller of NewJob with a new key waits at a cache whose
\* entries are all pending
C19_Witness ==
    \E x \in PoolCallers : WantsNewKey(x) /\ AllPending(ppool[x])


(***************************************************************************)
(* Properties of the DNS processor's mutex                                 *)
(***************************************************************************)
\* C20: the mutex is held only across the operations on the in-flight map: a
\* goroutine that enqueues a job on the worker pool, runs a Lookup, fires the
\* completion signal or waits for it does not hold the mutex, and whoever
\* holds it is between the Lock and the Unlock of NewJob or of work.
C20_MutexOnlyAcrossMap ==
    /\ \A c \in Clients :
          /\ npc[c] \in {"add", "ret"} => mutex # c
          /\ cpc[c] \in {"wait", "waited"} => mutex # c
          /\ mutex = c => npc[c] \in {"check", "unlock"}
    /\ \A w \in DnsWorkers :
          /\ wpc[w] \in {"lookup", "done"} => mutex # w
          /\ mutex = w => wpc[w] \in {"delete", "unlock"}

\* C20 witness: a client is about to enqueue its new job while a worker holds
\* the mutex for its delete
C20_Witness ==
    /\ \E c \in Clients : npc[c] = "add" /\ ~nexist[c]
    /\ \E w \in DnsWorkers : wpc[w] = "delete" /\ mutex = w


(***************************************************************************)
(* Properties of the results and the map entries of DNS jobs               *)
(***************************************************************************)
\* no worker will write the job's Result: the job is neither on the channel
\* nor with a worker that has yet to store its result
ResultFinal(job) ==
    /\ \A i \in 1..Len(queue) : queue[i] # job
    /\ \A w \in DnsWorkers : wjob[w] = job => wpc[w] # "lookup"

\* C21: once Wait() on a DnsJob has returned, for every waiter of the job,
\* those that got it from a deduplicated NewJob included, the job's Result is
\* set and is not written again, so Results() reads a completed result.
C21_ResultSetOnceBeforeWaitReturns ==
    /\ [](\A c \in Clients :
            cpc[c] = "waited" =>
                jobResult[cjob[c]] # NilPtr /\ ResultFinal(cjob[c]))
    /\ [][\A j \in JobIds :
            (Completed(j) \/ \E c \in Clients : cpc[c] = "waited" /\ cjob[c] = j)
                => jobResult'[j] = jobResult[j]]_vars

\* C21 witness: two waiters of one job, one of them from a deduplicated
\* NewJob, have both returned from Wait()
C21_Witness ==
    \E c1, c2 \in Clients :
        /\ c1 # c2
        /\ cpc[c1] = "waited" /\ cpc[c2] = "waited"
        /\ cjob[c1] = cjob[c2]
        /\ jobResult[cjob[c1]] # NilPtr

\* C22: when a worker deletes its job's query from the in-flight map, the
\* entry of that query is the worker's own job; an entry leaves the map only
\* by the delete of the worker of the job the entry holds, never by the
\* completion of another job of the same query.
C22_DeleteRemovesOwnEntry ==
    /\ [](\A w \in DnsWorkers :
            wpc[w] = "delete" => jobs[jobQuery[wjob[w]]] = wjob[w])
    /\ [][\A q \in Queries :
            jobs[q] # NoJob /\ jobs'[q] # jobs[q] =>
                /\ jobs'[q] = NoJob
                /\ \E w \in DnsWorkers :
                      wpc[w] = "delete" /\ wjob[w] = jobs[q] /\ wpc'[w] = "unlock"]_vars

\* C22 witness: a worker is about to delete the entry of its job, the second
\* job of a query whose first job has completed
C22_Witness ==
    \E w \in DnsWorkers : \E j \in JobIds :
        /\ wpc[w] = "delete"
        /\ j < wjob[w]
        /\ Completed(j)
        /\ jobQuery[j] = jobQuery[wjob[w]]
        /\ jobs[jobQuery[wjob[w]]] = wjob[w]


(***************************************************************************)
(* Properties of saveMxAddresses                                           *)
(***************************************************************************)
\* the step is the return of the saver's saveMxAddresses after a Rollback
RolledBack(s) ==
    dpc[s] = "txinsert" /\ dtx[s].todo # <<>> /\ dpc'[s] = "idle"

\* the step is the return of the saver's saveMxAddresses after its Commit
Committed(s) ==
    dpc[s] = "txinsert" /\ dtx[s].todo = <<>> /\ dpc'[s] = "idle"

\* C23: saveMxAddresses is all-or-nothing per hostname and family: when an
\* INSERT fails with a duplicate key the transaction, its DELETE included, is
\* rolled back and the stored addresses of the hostname and family stay as
\* they are; when it commits, the stored addresses of the hostname and family
\* are exactly the distinct addresses of the job's results.
C23_AllOrNothing ==
    [][\A s \in Savers :
          /\ RolledBack(s) => dlogged'[s] /\ mxrec' = mxrec
          /\ Committed(s) =>
                mxrec'[dop[s].key] = AddressSet(UniqueStrings(dop[s].results))]_vars

\* what holds of saveMxAddresses: a rolled back transaction leaves the store
\* as it is, and after a commit the distinct addresses of the job's results
\* are among the stored addresses of the hostname and family, together with
\* whatever other transactions committed since the DELETE
MxAddrCommitAddsResults ==
    [][\A s \in Savers :
          /\ RolledBack(s) => dlogged'[s] /\ mxrec' = mxrec
          /\ Committed(s) =>
                /\ AddressSet(UniqueStrings(dop[s].results)) \subseteq mxrec'[dop[s].key]
                /\ mxrec'[dop[s].key] \subseteq
                      AddressSet(UniqueStrings(dop[s].results))
                          \cup (mxrec[dop[s].key] \ dtx[s].deleted)
                /\ \A k \in DbKeys \ {dop[s].key} : mxrec'[k] = mxrec[k]]_vars

=============================================================================
